---- MODULE Spec2Model ----
(***************************************************************************)
(* Download-URL resolution of the GeoNetwork/CSW catalog plugin            *)
(* (findBestDownloadUrl and its helpers isUrlValid, negotiateWfsFormat,    *)
(* detectFormatFromHeaders and analyzeLink), as a state machine.           *)
(*                                                                         *)
(* JavaScript strings are TLA+ strings; the String methods includes,        *)
(* endsWith, toLowerCase and split, and URLSearchParams parsing and        *)
(* serialisation, are computed character by character.                     *)
(***************************************************************************)
EXTENDS Integers, Sequences, FiniteSets, TLC

(***************************************************************************)
(* String primitives of the JavaScript runtime                             *)
(***************************************************************************)

\* s.includes(n)
Includes(s, n) ==
  \E i \in 1..(Len(s) - Len(n) + 1) : SubSeq(s, i, i + Len(n) - 1) = n

\* s.endsWith(n)
EndsWith(s, n) ==
  Len(s) >= Len(n) /\ SubSeq(s, Len(s) - Len(n) + 1, Len(s)) = n

\* s.startsWith(n)
StartsWith(s, n) ==
  Len(s) >= Len(n) /\ SubSeq(s, 1, Len(n)) = n

\* s.indexOf(ch) for a one-character ch, 1-based; 0 when absent
IndexOf(s, ch) ==
  LET hits == {i \in 1..Len(s) : SubSeq(s, i, i) = ch}
  IN  IF hits = {} THEN 0 ELSE CHOOSE i \in hits : \A j \in hits : i <= j

UpperLetters == "ABCDEFGHIJKLMNOPQRSTUVWXYZ"

LowerLetters == "abcdefghijklmnopqrstuvwxyz"

Digits == "0123456789"

LowerChar(ch) ==
  LET k == IndexOf(UpperLetters, ch)
  IN  IF k = 0 THEN ch ELSE SubSeq(LowerLetters, k, k)

RECURSIVE ToLowerCase(_)
\* s.toLowerCase()
ToLowerCase(s) ==
  IF s = "" THEN ""
  ELSE LowerChar(SubSeq(s, 1, 1)) \o ToLowerCase(SubSeq(s, 2, Len(s)))

RECURSIVE SplitOn(_, _)
\* s.split(ch) for a one-character separator: the sequence of parts
SplitOn(s, ch) ==
  LET k == IndexOf(s, ch)
  IN  IF k = 0 THEN <<s>>
      ELSE <<SubSeq(s, 1, k - 1)>> \o SplitOn(SubSeq(s, k + 1, Len(s)), ch)

(***************************************************************************)
(* application/x-www-form-urlencoded (URLSearchParams)                     *)
(***************************************************************************)

\* the characters the serialiser leaves as they are
UrlencodedSafe == LowerLetters \o UpperLetters \o Digits \o "*-._"

\* the percent-encoding of the other characters that occur in the model
PercentTable ==
  << <<"/", "%2F">>, <<";", "%3B">>, <<"=", "%3D">>, <<"+", "%2B">>,
     <<":", "%3A">>, <<"?", "%3F">>, <<"&", "%26">>, <<",", "%2C">>,
     <<"%", "%25">> >>

EncodeChar(ch) ==
  IF IndexOf(UrlencodedSafe, ch) # 0 THEN ch
  ELSE IF ch = " " THEN "+"
  ELSE IF \E k \in 1..Len(PercentTable) : PercentTable[k][1] = ch
       THEN PercentTable[CHOOSE k \in 1..Len(PercentTable) : PercentTable[k][1] = ch][2]
       ELSE "%3F"

RECURSIVE UrlEncode(_)
\* the urlencoded serialisation of one name or value
UrlEncode(s) ==
  IF s = "" THEN ""
  ELSE EncodeChar(SubSeq(s, 1, 1)) \o UrlEncode(SubSeq(s, 2, Len(s)))

RECURSIVE UrlDecode(_)
\* the urlencoded parse of one name or value: "+" is a space, %XX a byte
UrlDecode(s) ==
  IF s = "" THEN ""
  ELSE IF SubSeq(s, 1, 1) = "+" THEN " " \o UrlDecode(SubSeq(s, 2, Len(s)))
  ELSE IF /\ SubSeq(s, 1, 1) = "%"
          /\ Len(s) >= 3
          /\ \E k \in 1..Len(PercentTable) : PercentTable[k][2] = SubSeq(s, 1, 3)
       THEN PercentTable[CHOOSE k \in 1..Len(PercentTable) :
                           PercentTable[k][2] = SubSeq(s, 1, 3)][1]
              \o UrlDecode(SubSeq(s, 4, Len(s)))
  ELSE SubSeq(s, 1, 1) \o UrlDecode(SubSeq(s, 2, Len(s)))

\* one "name=value" piece of a query string, split at its first "="
ParsePair(piece) ==
  LET k == IndexOf(piece, "=")
  IN  IF k = 0 THEN <<UrlDecode(piece), "">>
      ELSE <<UrlDecode(SubSeq(piece, 1, k - 1)),
             UrlDecode(SubSeq(piece, k + 1, Len(piece)))>>

RECURSIVE ParsePieces(_)
ParsePieces(pieces) ==
  IF pieces = <<>> THEN <<>>
  ELSE (IF Head(pieces) = "" THEN <<>> ELSE <<ParsePair(Head(pieces))>>)
         \o ParsePieces(Tail(pieces))

\* new URLSearchParams(query): the list of <<name, value>> pairs
URLSearchParams(query) ==
  IF query = "" THEN <<>> ELSE ParsePieces(SplitOn(query, "&"))

RECURSIVE ParamsToString(_)
\* params.toString()
ParamsToString(params) ==
  IF params = <<>> THEN ""
  ELSE UrlEncode(Head(params)[1]) \o "=" \o UrlEncode(Head(params)[2])
         \o (IF Tail(params) = <<>> THEN "" ELSE "&" \o ParamsToString(Tail(params)))

\* params.delete(key): every pair of that exact name goes
ParamsDelete(params, key) ==
  SelectSeq(params, LAMBDA p : p[1] # key)

ParamsHas(params, key) ==
  \E k \in 1..Len(params) : params[k][1] = key

\* params.set(key, value): the first pair of that name takes the value and the
\* others go; a new pair is appended when there is none
ParamsSet(params, key, value) ==
  IF ParamsHas(params, key)
  THEN LET first == CHOOSE k \in 1..Len(params) :
                      /\ params[k][1] = key
                      /\ \A j \in 1..(k - 1) : params[j][1] # key
       IN  SubSeq(params, 1, first - 1) \o <<<<key, value>>>>
             \o ParamsDelete(SubSeq(params, first + 1, Len(params)), key)
  ELSE Append(params, <<key, value>>)

\* params.get(key) || ''
ParamsGet(params, key) ==
  IF ParamsHas(params, key)
  THEN params[CHOOSE k \in 1..Len(params) :
                /\ params[k][1] = key
                /\ \A j \in 1..(k - 1) : params[j][1] # key][2]
  ELSE ""

(***************************************************************************)
(* JavaScript values of the parsed metadata tree                           *)
(***************************************************************************)

Undefined == [k |-> "undefined"]

Null == [k |-> "null"]

Str(s) == [k |-> "string", s |-> s]

Num(n) == [k |-> "number", n |-> n]

Array(items) == [k |-> "array", items |-> items]

\* a localized-text wrapper { CharacterString: v }
CharacterString(v) == [k |-> "object", CharacterString |-> v, text |-> Undefined]

\* a text node with attributes { '#text': v }
HashText(v) == [k |-> "object", CharacterString |-> Undefined, text |-> v]

\* an object with neither field
EmptyObject == [k |-> "object", CharacterString |-> Undefined, text |-> Undefined]

\* JavaScript truthiness: !v is ~Truthy(v)
Truthy(v) ==
  CASE v.k = "undefined" -> FALSE
    [] v.k = "null" -> FALSE
    [] v.k = "string" -> v.s # ""
    [] v.k = "number" -> v.n # 0
    [] OTHER -> TRUE

\* asArray of utils/common.ts
asArray(input) ==
  IF ~Truthy(input) THEN <<>>
  ELSE IF input.k = "array" THEN input.items
  ELSE <<input>>

\* getText of utils/common.ts. A number has no CharacterString and no '#text'
\* property; what a truthy CharacterString or '#text' holds is returned as is,
\* whatever its type.
getText(input) ==
  IF ~Truthy(input) THEN Str("")
  ELSE IF input.k = "string" THEN input
  ELSE IF input.k = "object" /\ Truthy(input.CharacterString) THEN input.CharacterString
  ELSE IF input.k = "object" /\ Truthy(input.text) THEN input.text
  ELSE Str("")

(***************************************************************************)
(* analyzeLink: one online resource to a DownloadCandidate                 *)
(***************************************************************************)

\* a CI_OnlineResource object: linkage.URL, protocol, name
OnlineResource(url, protocol, name) ==
  [k |-> "object", CI_OnlineResource |-> Undefined,
   URL |-> url, protocol |-> protocol, name |-> name]

\* an onLine entry that wraps its CI_OnlineResource
Wrapped(link) ==
  [k |-> "object", CI_OnlineResource |-> link,
   URL |-> Undefined, protocol |-> Undefined, name |-> Undefined]

Candidate(url, format, score, layerName) ==
  [k |-> "candidate", url |-> url, format |-> format, score |-> score,
   layerName |-> layerName]

\* a TypeError thrown by the call
Raise == [k |-> "raise"]

\* the format of a WFS link that names its output format
WfsOutputFormat(u) ==
  IF Includes(u, "geojson") \/ Includes(u, "json") THEN "geojson"
  ELSE IF Includes(u, "csv") THEN "csv"
  ELSE IF Includes(u, "zip") \/ Includes(u, "shape") THEN "shapefile"
  ELSE "wfs_service"

\* a decision list that tries the GeoJSON rule before the zipped shapefile rule
ClassifyGeoJsonFirst(url, p, name) ==
  LET u == ToLowerCase(url)
      n == ToLowerCase(name)
  IN  IF Includes(u, "service=wfs") /\ Includes(u, "outputformat=")
        THEN Candidate(url, WfsOutputFormat(u), 50, Undefined)
      ELSE IF Includes(u, "/api/data/") \/ Includes(u, "/api/records/")
        THEN Candidate(url, "shapefile", 11, Undefined)
      ELSE IF Includes(u, "geojson") \/ Includes(p, "geo+json") \/ Includes(n, "geojson")
        THEN Candidate(url, "geojson", 10, Undefined)
      ELSE IF Includes(u, "shape-zip") \/ EndsWith(u, ".zip") \/ Includes(n, "shapefile")
        THEN Candidate(url, "shapefile", 8, Undefined)
      ELSE IF Includes(u, "/csv") \/ Includes(u, ".csv") \/ Includes(p, "text/csv")
              \/ name = "csv"
        THEN Candidate(url, "csv", 6, Undefined)
      ELSE IF EndsWith(u, ".kml") \/ Includes(p, "kml")
        THEN Candidate(url, "kml", 4, Undefined)
      ELSE IF /\ \/ Includes(u, "/json") \/ Includes(u, ".json")
                 \/ Includes(p, "application/json") \/ n = "json"
              /\ ~Includes(u, "geojson")
        THEN Candidate(url, "json", 5, Undefined)
      ELSE IF Includes(p, "ogc:wfs") \/ Includes(p, "wfs") \/ Includes(u, "service=wfs")
        THEN Candidate(url, "wfs_service", 2, Str(name))
      ELSE Candidate(url, "unknown", 1, Undefined)

\* the decision list, on a string url, the lower-cased protocol and a string name
ClassifyLink(url, p, name) ==
  LET u == ToLowerCase(url)
      n == ToLowerCase(name)
  IN  IF Includes(u, "service=wfs") /\ Includes(u, "outputformat=")
        THEN Candidate(url, WfsOutputFormat(u), 50, Undefined)
      ELSE IF Includes(u, "/api/data/") \/ Includes(u, "/api/records/")
        THEN Candidate(url, "shapefile", 11, Undefined)
      ELSE IF Includes(u, "shape-zip") \/ EndsWith(u, ".zip") \/ Includes(n, "shapefile")
        THEN Candidate(url, "shapefile", 8, Undefined)
      ELSE IF Includes(u, "geojson") \/ Includes(p, "geo+json") \/ Includes(n, "geojson")
        THEN Candidate(url, "geojson", 10, Undefined)
      ELSE IF Includes(u, "/csv") \/ Includes(u, ".csv") \/ Includes(p, "text/csv")
              \/ name = "csv"
        THEN Candidate(url, "csv", 6, Undefined)
      ELSE IF EndsWith(u, ".kml") \/ Includes(p, "kml")
        THEN Candidate(url, "kml", 4, Undefined)
      ELSE IF /\ \/ Includes(u, "/json") \/ Includes(u, ".json")
                 \/ Includes(p, "application/json") \/ n = "json"
              /\ ~Includes(u, "geojson")
        THEN Candidate(url, "json", 5, Undefined)
      ELSE IF Includes(p, "ogc:wfs") \/ Includes(p, "wfs") \/ Includes(u, "service=wfs")
        THEN Candidate(url, "wfs_service", 2, Str(name))
      ELSE Candidate(url, "unknown", 1, Undefined)

\* analyzeLink: Raise where the code calls toLowerCase on a value that is no
\* string, Null for a link without url, else the candidate
analyzeLink(linkWrapper) ==
  LET link == IF Truthy(linkWrapper.CI_OnlineResource)
              THEN linkWrapper.CI_OnlineResource ELSE linkWrapper
      url == getText(link.URL)
      protocol == getText(link.protocol)
      name == getText(link.name)
  IN  IF protocol.k # "string" THEN Raise
      ELSE IF ~Truthy(url) THEN Null
      ELSE IF url.k # "string" \/ name.k # "string" THEN Raise
      ELSE ClassifyLink(url.s, ToLowerCase(protocol.s), name.s)

(***************************************************************************)
(* The online resources of the model                                       *)
(***************************************************************************)

WfsProtocol == CharacterString(Str("OGC:WFS"))

DownloadProtocol == CharacterString(Str("WWW:DOWNLOAD-1.0-http--download"))

\* the online resources the documents are made of
Library ==
  << Wrapped(OnlineResource(Str("https://example.org/data.geojson"),
                            DownloadProtocol, CharacterString(Str("Parcelles")))),
     Wrapped(OnlineResource(Str("https://example.org/export.csv"),
                            DownloadProtocol, Undefined)),
     Wrapped(OnlineResource(Str("https://example.org/carte.kml"),
                            DownloadProtocol, HashText(Str("Carte")))),
     Wrapped(OnlineResource(Str("https://example.org/wfs?service=WFS"),
                            WfsProtocol, Undefined)),
     Wrapped(OnlineResource(Str("https://geo.example.org/ows?SERVICE=WFS&REQUEST=GetCapabilities&map=a+b"),
                            WfsProtocol, CharacterString(Str("ms:parcelles")))),
     Wrapped(OnlineResource(Str("https://example.org/wfs?service=WFS&request=GetFeature&typeName=parcelles&outputFormat=gml3"),
                            WfsProtocol, CharacterString(Str("parcelles")))),
     Wrapped(OnlineResource(Str("https://example.org/wfs?service=wfs&outputformat=geojson"),
                            WfsProtocol, Undefined)),
     OnlineResource(Str("https://example.org/api/data/parcelles?format=csv"),
                    Undefined, CharacterString(Str("Export"))),
     Wrapped(OnlineResource(Str("https://example.org/download/123"),
                            CharacterString(Str("WWW:LINK")), EmptyObject)),
     Wrapped(OnlineResource(Undefined,
                            CharacterString(Str("WWW:LINK")), CharacterString(Str("Fiche")))),
     Wrapped(OnlineResource(Str("https://example.org/files/7"),
                            CharacterString(Num(2)), CharacterString(Str("Archive")))),
     Wrapped(OnlineResource(Str("/api/data/export"),
                            DownloadProtocol, Undefined)) >>

\* the function f as an explicit table: TLC then computes each f[x] once, not
\* at every use
Table(f) == f @@ <<>>

\* analyzeLink of every library entry
AnalysedLibrary == Table([j \in 1..Len(Library) |-> analyzeLink(Library[j])])

\* an export of the records API
ApiRecordsLink ==
  Wrapped(OnlineResource(Str("https://example.org/api/records/parcelles/exports/shp"),
                         DownloadProtocol, CharacterString(Str("Export"))))

\* analyzeLink(linkWrapper) for an entry of an onLine list
Analysed(linkWrapper) ==
  IF \E j \in 1..Len(Library) : Library[j] = linkWrapper
  THEN AnalysedLibrary[CHOOSE j \in 1..Len(Library) : Library[j] = linkWrapper]
  ELSE analyzeLink(linkWrapper)

(***************************************************************************)
(* URLs                                                                    *)
(***************************************************************************)

SchemeChars == LowerLetters \o UpperLetters \o Digits \o "+-."

\* whether new URL(url) accepts url: it needs a scheme, letters first. The HTTP
\* client builds its request with new URL as well, so it rejects, without
\* sending anything, exactly the urls that new URL rejects.
UrlParses(url) ==
  LET k == IndexOf(url, ":")
  IN  /\ k > 1
      /\ IndexOf(LowerLetters \o UpperLetters, SubSeq(url, 1, 1)) # 0
      /\ \A j \in 1..(k - 1) : IndexOf(SchemeChars, SubSeq(url, j, j)) # 0

\* the part of a parsed URL before its query
UrlBase(url) ==
  LET k == IndexOf(url, "?")
  IN  IF k = 0 THEN url ELSE SubSeq(url, 1, k - 1)

\* the query of a parsed URL, all that follows the first "?"
UrlQuery(url) ==
  LET k == IndexOf(url, "?")
  IN  IF k = 0 THEN "" ELSE SubSeq(url, k + 1, Len(url))

\* the href of a URL whose searchParams were written: the query is the
\* serialised list, and goes when the list is empty. The urls of the model
\* are already in the form new URL gives their scheme, host and path.
UrlWithParams(base, params) ==
  IF params = <<>> THEN base ELSE base \o "?" \o ParamsToString(params)

\* the url of the API export without its format parameter
\* (urlObj.searchParams.delete('format'); urlObj.toString())
CleanUrl(url) ==
  UrlWithParams(UrlBase(url), ParamsDelete(URLSearchParams(UrlQuery(url)), "format"))

(***************************************************************************)
(* negotiateWfsFormat                                                      *)
(***************************************************************************)

\* the list with its CSV formats ahead of the GeoJSON ones
CsvFirst ==
  << [param |-> "csv", format |-> "csv"],
     [param |-> "text/csv", format |-> "csv"],
     [param |-> "application/json; subtype=geojson", format |-> "geojson"],
     [param |-> "geojson", format |-> "geojson"],
     [param |-> "application/json", format |-> "geojson"],
     [param |-> "application/vnd.geo+json", format |-> "geojson"],
     [param |-> "json", format |-> "geojson"],
     [param |-> "SHAPE-ZIP", format |-> "shapefile"],
     [param |-> "shapezip", format |-> "shapefile"],
     [param |-> "application/zip", format |-> "shapefile"],
     [param |-> "application/x-shapefile", format |-> "shapefile"],
     [param |-> "kml", format |-> "kml"],
     [param |-> "application/vnd.google-earth.kml+xml", format |-> "kml"] >>

formatsToTry ==
  << [param |-> "application/json; subtype=geojson", format |-> "geojson"],
     [param |-> "geojson", format |-> "geojson"],
     [param |-> "application/json", format |-> "geojson"],
     [param |-> "application/vnd.geo+json", format |-> "geojson"],
     [param |-> "json", format |-> "geojson"],
     [param |-> "SHAPE-ZIP", format |-> "shapefile"],
     [param |-> "shapezip", format |-> "shapefile"],
     [param |-> "application/zip", format |-> "shapefile"],
     [param |-> "application/x-shapefile", format |-> "shapefile"],
     [param |-> "csv", format |-> "csv"],
     [param |-> "text/csv", format |-> "csv"],
     [param |-> "kml", format |-> "kml"],
     [param |-> "application/vnd.google-earth.kml+xml", format |-> "kml"] >>

WfsKeys ==
  {"service", "request", "version", "typename", "typenames", "outputformat", "srsname"}

\* the first two parts of originalUrl.split('?')
SplitUrl(originalUrl) ==
  LET parts == SplitOn(originalUrl, "?")
  IN  [baseUrl |-> parts[1],
       existingQuery |-> IF Len(parts) >= 2 THEN parts[2] ELSE ""]

\* a negotiation that names the layer by the resource id whatever the link says
NegotiationParamsById(originalUrl, rid, layerName) ==
  LET params == URLSearchParams(SplitUrl(originalUrl).existingQuery)
      kept == SelectSeq(params, LAMBDA q : ToLowerCase(q[1]) \notin WfsKeys)
  IN  ParamsSet(ParamsSet(ParamsSet(ParamsSet(kept,
        "SERVICE", "WFS"), "VERSION", "2.0.0"), "REQUEST", "GetFeature"),
        "TYPENAMES", rid)

\* the parameters common to every probe of one negotiation
NegotiationParams(originalUrl, rid, layerName) ==
  LET params == URLSearchParams(SplitUrl(originalUrl).existingQuery)
      kept == SelectSeq(params, LAMBDA q : ToLowerCase(q[1]) \notin WfsKeys)
      typeName == IF Truthy(layerName) THEN layerName.s ELSE rid
  IN  ParamsSet(ParamsSet(ParamsSet(ParamsSet(kept,
        "SERVICE", "WFS"), "VERSION", "2.0.0"), "REQUEST", "GetFeature"),
        "TYPENAMES", typeName)

\* testUrl of the t-th format
NegotiatedUrl(originalUrl, rid, layerName, t) ==
  SplitUrl(originalUrl).baseUrl \o "?"
    \o ParamsToString(ParamsSet(NegotiationParams(originalUrl, rid, layerName),
                                "OUTPUTFORMAT", formatsToTry[t].param))

(***************************************************************************)
(* isUrlValid                                                              *)
(***************************************************************************)

\* a response: status 0 stands for no response at all (connection error, timeout)
Response(status, data, contentType) ==
  [status |-> status, data |-> data, contentType |-> contentType]

\* a service test that requests the url as it is given
UnlimitedUrl(url) == url

\* the url the service test requests: testUrl with COUNT and MAXFEATURES set
ServiceTestUrl(url) ==
  UrlWithParams(UrlBase(url),
    ParamsSet(ParamsSet(URLSearchParams(UrlQuery(url)), "COUNT", "1"), "MAXFEATURES", "1"))

\* testUrl.searchParams.get('OUTPUTFORMAT') || ''
RequestedFormat(url) ==
  ParamsGet(URLSearchParams(UrlQuery(ServiceTestUrl(url))), "OUTPUTFORMAT")

\* a service test that does not compare the content type with the format
AcceptsAnyType(requestedFormat, r) ==
  /\ r.status # 0
  /\ r.status < 500
  /\ ~(r.status >= 400)
  /\ ~(Includes(r.data, "ExceptionReport") \/ Includes(r.data, "ServiceException"))

\* what the service test makes of the response to its GET
ServiceTestAccepts(requestedFormat, r) ==
  /\ r.status # 0
  /\ r.status < 500
  /\ ~(r.status >= 400)
  /\ ~(Includes(r.data, "ExceptionReport") \/ Includes(r.data, "ServiceException"))
  /\ ~(Includes(requestedFormat, "json") /\ Includes(r.contentType, "xml"))

\* isUrlValid(url, log, true) on the response to its GET
ServiceTestValid(url, r) == ServiceTestAccepts(RequestedFormat(url), r)

\* a HEAD validated as the GET of the service test is
ValidBelow500(r) == r.status # 0 /\ r.status < 500

\* isUrlValid(url, log) on the response to its HEAD
PlainValid(r) ==
  r.status # 0 /\ r.status >= 200 /\ r.status < 400

(***************************************************************************)
(* detectFormatFromHeaders                                                 *)
(***************************************************************************)

\* a table that answers 'unknown', not null, to a content type it does not know
FormatOrUnknown(contentType) ==
  IF Includes(contentType, "application/json") THEN "geojson"
  ELSE IF Includes(contentType, "text/csv") THEN "csv"
  ELSE "unknown"

\* the table, on a content type that is present; "" stands for null
FormatOfContentType(contentType) ==
  IF Includes(contentType, "application/json") \/ Includes(contentType, "application/geo+json")
    THEN "geojson"
  ELSE IF Includes(contentType, "application/zip")
          \/ Includes(contentType, "application/x-zip-compressed")
    THEN "shapefile"
  ELSE IF Includes(contentType, "text/csv") \/ Includes(contentType, "application/csv")
    THEN "csv"
  ELSE IF Includes(contentType, "kml") \/ Includes(contentType, "xml")
    THEN "kml"
  ELSE IF Includes(contentType, "text/tab-separated-values") \/ Includes(contentType, "text/tsv")
    THEN "tsv"
  ELSE IF Includes(contentType, "application/vnd.openxmlformats-officedocument.spreadsheetml.sheet")
    THEN "xlsx"
  ELSE IF Includes(contentType, "application/vnd.ms-excel")
    THEN "xls"
  ELSE IF Includes(contentType, "application/vnd.oasis.opendocument.spreadsheet")
    THEN "ods"
  ELSE IF Includes(contentType, "application/gpx+xml") \/ Includes(contentType, "gpx")
    THEN "gpx"
  ELSE IF Includes(contentType, "application/vnd.google-earth.kmz") \/ Includes(contentType, "kmz")
    THEN "kmz"
  ELSE ""

\* a sniffer that answers 'unknown', not null, when its HEAD fails or the
\* answer has no content type
DetectOrUnknown(r) ==
  IF r.status = 0 \/ ~(r.status < 400) THEN "unknown"
  ELSE IF r.contentType = "" THEN "unknown"
  ELSE FormatOfContentType(r.contentType)

\* detectFormatFromHeaders on the response to its HEAD; "" stands for null
detectFormatFromHeaders(r) ==
  IF r.status = 0 \/ ~(r.status < 400) THEN ""
  ELSE IF r.contentType = "" THEN ""
  ELSE FormatOfContentType(r.contentType)

(***************************************************************************)
(* candidates.sort((a, b) => b.score - a.score): stable, descending        *)
(***************************************************************************)

\* a sort that puts x ahead of the elements of its own score
InsertBeforeEquals(sorted, x) ==
  LET n == Cardinality({j \in 1..Len(sorted) : sorted[j].score > x.score})
  IN  SubSeq(sorted, 1, n) \o <<x>> \o SubSeq(sorted, n + 1, Len(sorted))

\* x goes after the last element whose score is at least its own
InsertByScore(sorted, x) ==
  LET n == Cardinality({j \in 1..Len(sorted) : sorted[j].score >= x.score})
  IN  SubSeq(sorted, 1, n) \o <<x>> \o SubSeq(sorted, n + 1, Len(sorted))

RECURSIVE SortFrom(_, _)
SortFrom(sorted, rest) ==
  IF rest = <<>> THEN sorted
  ELSE SortFrom(InsertByScore(sorted, Head(rest)), Tail(rest))

\* the candidates left in the order of the document
KeepOrder(cands) == cands

SortByScore(cands) == SortFrom(<<>>, cands)

(***************************************************************************)
(* The metadata document and the extraction of its candidates              *)
(***************************************************************************)

\* { MD_Format: { name } }, an entry of distributionFormat
DistributionFormat(name) ==
  [k |-> "object", MD_Format |-> [k |-> "object", name |-> name]]

\* { MD_DigitalTransferOptions: { onLine } }, an entry of transferOptions
TransferOptions(onLine) ==
  [k |-> "object",
   MD_DigitalTransferOptions |-> [k |-> "object", onLine |-> onLine],
   onLine |-> Undefined]

\* a transfer option that holds onLine itself, without the wrapper
BareTransferOptions(onLine) ==
  [k |-> "object", MD_DigitalTransferOptions |-> Undefined, onLine |-> onLine]

\* { distributionInfo: { MD_Distribution: { distributionFormat, transferOptions } } }
Metadata(distributionFormat, transferOptions) ==
  [k |-> "object", MD_Metadata |-> Undefined,
   distributionInfo |->
     [k |-> "object",
      MD_Distribution |->
        [k |-> "object", distributionFormat |-> distributionFormat,
         transferOptions |-> transferOptions]]]

\* a record without distributionInfo, and one whose distributionInfo is empty
MetadataNoDistributionInfo ==
  [k |-> "object", MD_Metadata |-> Undefined, distributionInfo |-> Undefined]

MetadataNoDistribution ==
  [k |-> "object", MD_Metadata |-> Undefined,
   distributionInfo |-> [k |-> "object", MD_Distribution |-> Undefined]]

\* { MD_Metadata: metadata }
InMDMetadata(md) ==
  [k |-> "object", MD_Metadata |-> md, distributionInfo |-> Undefined]

\* root?.distributionInfo?.MD_Distribution
MDDistribution(md) ==
  LET root == IF Truthy(md.MD_Metadata) THEN md.MD_Metadata ELSE md
  IN  IF Truthy(root.distributionInfo)
      THEN root.distributionInfo.MD_Distribution
      ELSE Undefined

\* whether the declaredFormats loop throws: getText(f.MD_Format?.name).toLowerCase()
DeclaredFormatsRaise(distributionInfo) ==
  LET rawFormats == IF Truthy(distributionInfo.distributionFormat)
                    THEN asArray(distributionInfo.distributionFormat) ELSE <<>>
  IN  \E j \in 1..Len(rawFormats) :
        getText(IF Truthy(rawFormats[j].MD_Format)
                THEN rawFormats[j].MD_Format.name ELSE Undefined).k # "string"

\* the onLine entries of one transfer option
OnLineOf(transfer) ==
  LET digitalTransfer == IF Truthy(transfer.MD_DigitalTransferOptions)
                         THEN transfer.MD_DigitalTransferOptions ELSE transfer
  IN  IF Truthy(digitalTransfer.onLine) THEN asArray(digitalTransfer.onLine) ELSE <<>>

RECURSIVE Flatten(_)
Flatten(transfers) ==
  IF transfers = <<>> THEN <<>>
  ELSE OnLineOf(Head(transfers)) \o Flatten(Tail(transfers))

\* allLinks
AllLinks(distributionInfo) == Flatten(asArray(distributionInfo.transferOptions))

\* what the synchronous first part of findBestDownloadUrl comes to:
\* Raise, Null (return null), or the sorted candidates
ExtractCandidates(md) ==
  LET distributionInfo == MDDistribution(md)
  IN  IF ~Truthy(distributionInfo) THEN Null
      ELSE IF DeclaredFormatsRaise(distributionInfo) THEN Raise
      ELSE LET allLinks == AllLinks(distributionInfo)
               analysed == [j \in 1..Len(allLinks) |-> Analysed(allLinks[j])]
           IN  IF allLinks = <<>> THEN Null
               ELSE IF \E j \in 1..Len(analysed) : analysed[j].k = "raise" THEN Raise
               ELSE LET sorted == SortByScore(SelectSeq(analysed,
                                        LAMBDA a : a.k = "candidate"))
                    IN  IF sorted = <<>> THEN Null
                        ELSE [k |-> "candidates", candidates |-> sorted]

(***************************************************************************)
(* Inputs                                                                  *)
(***************************************************************************)

\* the longest onLine list of a document
MaxLinks == 2

RECURSIVE LinkLists(_)
\* the lists of at most n library entries
LinkLists(n) ==
  IF n = 0 THEN {<<>>}
  ELSE LET shorter == LinkLists(n - 1)
       IN  shorter \cup {Append(l, Library[j]) : l \in shorter, j \in 1..Len(Library)}

\* the parser gives one child as a bare object and several as an array
OneOrArray(items) ==
  IF Len(items) = 1 THEN items[1] ELSE Array(items)

EsriFormat == DistributionFormat(CharacterString(Str("ESRI Shapefile")))

\* documents with online resources
LinkDocuments ==
  {Metadata(EsriFormat, TransferOptions(OneOrArray(l))) : l \in LinkLists(MaxLinks) \ {<<>>}}

\* documents without any online resource
EmptyDocuments ==
  { MetadataNoDistributionInfo,
    MetadataNoDistribution,
    InMDMetadata(MetadataNoDistributionInfo),
    Metadata(Undefined, Undefined),
    Metadata(EsriFormat, Undefined),
    Metadata(EsriFormat, Array(<<>>)),
    Metadata(EsriFormat, TransferOptions(Undefined)),
    Metadata(EsriFormat, BareTransferOptions(Undefined)),
    Metadata(EsriFormat, Array(<<TransferOptions(Undefined), TransferOptions(Array(<<>>))>>)),
    Metadata(DistributionFormat(CharacterString(Num(2154))), Undefined),
    Metadata(Array(<<EsriFormat, DistributionFormat(Undefined)>>), Array(<<>>)) }

\* documents of other shapes that do hold online resources
ShapedDocuments ==
  { InMDMetadata(Metadata(Undefined, TransferOptions(Library[1]))),
    Metadata(Undefined, BareTransferOptions(Library[3])),
    Metadata(DistributionFormat(CharacterString(Num(2154))), TransferOptions(Library[1])),
    Metadata(EsriFormat, TransferOptions(ApiRecordsLink)),
    Metadata(EsriFormat, Array(<<TransferOptions(Library[2]), TransferOptions(Undefined),
                                 TransferOptions(Array(<<Library[4], Library[9]>>))>>)) }

Documents == LinkDocuments \cup EmptyDocuments \cup ShapedDocuments

ResourceIds == {"parcelles-2024"}

(***************************************************************************)
(* What the network may answer                                             *)
(***************************************************************************)

\* answers to the HEAD of isUrlValid
HeadResponses == {Response(s, "", "") : s \in {0, 200, 302, 404, 500}}

\* answers to the GET of the service test
GetResponses ==
  {Response(s, "", "") : s \in {0, 404, 500}}
    \cup {Response(200, d, t) :
            d \in {"<wfs:FeatureCollection/>", "<ows:ExceptionReport/>",
                   "<ServiceExceptionReport/>"},
            t \in {"", "application/json", "text/xml; subtype=gml/3.2.1",
                   "application/zip"}}

ContentTypes ==
  {"", "application/json", "application/geo+json", "application/zip", "text/csv",
   "application/vnd.google-earth.kml+xml", "text/xml",
   "text/tab-separated-values",
   "application/vnd.openxmlformats-officedocument.spreadsheetml.sheet",
   "application/vnd.ms-excel", "application/vnd.oasis.opendocument.spreadsheet",
   "application/gpx+xml", "application/vnd.google-earth.kmz", "text/html"}

\* answers to the HEAD of detectFormatFromHeaders
SniffResponses == {Response(s, "", t) : s \in {0, 200, 404}, t \in ContentTypes}

(***************************************************************************)
(* The negotiations of the model, computed once                            *)
(***************************************************************************)

\* the candidates negotiateWfsFormat may be called on
WfsCandidates ==
  {AnalysedLibrary[j] : j \in {n \in 1..Len(Library) :
     AnalysedLibrary[n].k = "candidate" /\ AnalysedLibrary[n].format = "wfs_service"}}

\* for a candidate and a resource id, per format: the tested url, the url
\* requested by the service test, and the answers the service test accepts
Negotiations ==
  Table([n \in WfsCandidates \X ResourceIds |->
     Table([t \in 1..Len(formatsToTry) |->
        LET testUrl == NegotiatedUrl(n[1].url, n[2], n[1].layerName, t)
            requestedFormat == RequestedFormat(testUrl)
        IN  [testUrl |-> testUrl,
             requestUrl |-> ServiceTestUrl(testUrl),
             sent |-> UrlParses(testUrl),
             accepted |-> Table([r \in GetResponses |->
                                   ServiceTestAccepts(requestedFormat, r)])]])])

(***************************************************************************)
(* The calls of findBestDownloadUrl                                        *)
(***************************************************************************)

Calls == {1, 2}

VARIABLES
  metadata,       \* [c]: the metadata argument
  resourceId,     \* [c]: the resourceId argument
  pc,             \* [c]: where the call stands
  candidates,     \* [c]: the sorted candidates
  idx,            \* [c]: the position of the for loop in candidates
  tok,            \* [c]: the position of negotiateWfsFormat in formatsToTry
  bestCandidate,  \* [c]: bestCandidate, Null until one is accepted
  result,         \* [c]: what the call returned, Null for null
  inflight,       \* [c]: the requests sent and not yet answered
  requests,       \* [c]: the probes made so far, in order, with their outcome
  reports,        \* [c]: the messages given to log, as <<level, message>>
  cancelled,      \* [c]: the requests sent when the caller gave the call up, -1 before
  applied,        \* the helper called on its own, "" before the call
  given,          \* the arguments of that call
  returned,       \* what that call returned
  step,           \* where the call of getResource stands, "off" without one
  context,        \* its GetResourceContext: resourceId and tmpDir
  parsed,         \* the answer to its CSW request, Null before
  downloadInfo,   \* what its findBestDownloadUrl returned, Null for null
  destPath,       \* the path given to downloadFileWithProgress, "" before
  stream,         \* the response stream: chunks in all and chunks left, Null without
  disk,           \* the files of the host: chunks written, by path
  errorLog,       \* the messages given to log.error, in order
  outcome         \* how getResource settled, Null before

\* what findBestDownloadUrl and its helpers work on
resolverVars ==
  <<metadata, resourceId, pc, candidates, idx, tok, bestCandidate, result,
    inflight, requests, reports>>

\* what they never touch
helperVars == <<applied, given, returned>>

importVars ==
  <<step, context, parsed, downloadInfo, destPath, stream, disk, errorLog, outcome>>

outside == <<cancelled, helperVars, importVars>>

vars == <<resolverVars, outside>>

\* no call of getResource
ImportIdle ==
  /\ step = "off"
  /\ context = Null
  /\ parsed = Null
  /\ downloadInfo = Null
  /\ destPath = ""
  /\ stream = Null
  /\ disk = {}
  /\ errorLog = <<>>
  /\ outcome = Null

\* nothing but calls of findBestDownloadUrl is going on
OutsideIdle ==
  /\ cancelled = [c \in Calls |-> -1]
  /\ applied = ""
  /\ given = Null
  /\ returned = Null
  /\ ImportIdle

\* a probe: isUrlValid plain (HEAD), isUrlValid as service test (GET), or
\* detectFormatFromHeaders (SNIFF); sent tells whether a request left
Probe(kind, url, cand, token, sent, ok) ==
  [kind |-> kind, url |-> url, cand |-> cand, token |-> token, sent |-> sent, ok |-> ok]

InvalidUrlWarning == <<"warning", "URL non valide">>

NoLinkWarning == <<"warning", "Aucun lien n'a passe le test de validation.">>

NoWfsFormatError == <<"error", "Ce service WFS ne propose aucun format supporte par DataFair">>

NoFormatWarning == <<"warning", "Aucun format supporte par DataFair">>

SniffWarning == <<"warning", "Impossible de detecter le format">>

InitLocals ==
  /\ candidates = [c \in Calls |-> <<>>]
  /\ idx = [c \in Calls |-> 0]
  /\ tok = [c \in Calls |-> 0]
  /\ bestCandidate = [c \in Calls |-> Null]
  /\ result = [c \in Calls |-> Null]
  /\ inflight = [c \in Calls |-> 0]
  /\ requests = [c \in Calls |-> <<>>]
  /\ reports = [c \in Calls |-> {}]

\* one call, on any document
Init ==
  /\ \E md \in Documents, rid \in ResourceIds :
       /\ metadata = [c \in Calls |-> IF c = 1 THEN md ELSE MetadataNoDistributionInfo]
       /\ resourceId = [c \in Calls |-> IF c = 1 THEN rid ELSE ""]
  /\ pc = [c \in Calls |-> IF c = 1 THEN "start" ELSE "off"]
  /\ InitLocals
  /\ OutsideIdle

\* lines 219-254: extraction, analysis and sort, up to the loop
Extract(c) ==
  /\ pc[c] = "start"
  /\ LET e == ExtractCandidates(metadata[c])
     IN  /\ pc' = [pc EXCEPT ![c] = CASE e.k = "raise" -> "raised"
                                      [] e.k = "null" -> "done"
                                      [] OTHER -> "loop"]
         /\ candidates' = [candidates EXCEPT ![c] =
                             IF e.k = "candidates" THEN e.candidates ELSE <<>>]
         /\ idx' = [idx EXCEPT ![c] = 1]
         /\ reports' = [reports EXCEPT ![c] =
                          IF e.k = "candidates"
                          THEN @ \cup {<<"info", "liens candidats trouves">>} ELSE @]
  /\ UNCHANGED <<metadata, resourceId, tok, bestCandidate, result, inflight, requests>>
  /\ UNCHANGED outside

\* a loop that sends the HEAD of every candidate without awaiting any answer
LoopNextNoAwait(c) ==
  /\ pc[c] = "loop"
  /\ IF idx[c] > Len(candidates[c])
     THEN /\ pc' = [pc EXCEPT ![c] = "done"]
          /\ UNCHANGED <<idx, inflight>>
     ELSE /\ idx' = [idx EXCEPT ![c] = @ + 1]
          /\ inflight' = [inflight EXCEPT ![c] = @ + 1]
          /\ UNCHANGED pc
  /\ UNCHANGED <<metadata, resourceId, candidates, tok, bestCandidate, result, requests, reports>>
  /\ UNCHANGED outside

\* lines 257-260 and 270-271, 281-284: the loop takes its next candidate and
\* isUrlValid sends its HEAD, or the loop is over with nothing accepted
LoopNext(c) ==
  /\ pc[c] = "loop"
  /\ IF idx[c] > Len(candidates[c])
     THEN /\ IF bestCandidate[c] = Null
             THEN /\ pc' = [pc EXCEPT ![c] = "done"]
                  /\ reports' = [reports EXCEPT ![c] = @ \cup {NoLinkWarning}]
             ELSE /\ pc' = [pc EXCEPT ![c] = "post"]
                  /\ UNCHANGED reports
          /\ result' = [result EXCEPT ![c] = Null]
          /\ UNCHANGED inflight
     ELSE /\ pc' = [pc EXCEPT ![c] = "head"]
          /\ inflight' = [inflight EXCEPT ![c] =
                            IF UrlParses(candidates[c][idx[c]].url) THEN @ + 1 ELSE @]
          /\ reports' = [reports EXCEPT ![c] =
                           IF candidates[c][idx[c]].format = "wfs_service"
                           THEN @ \cup {<<"info", "lien WFS detecte">>} ELSE @]
          /\ UNCHANGED result
  /\ UNCHANGED <<metadata, resourceId, candidates, idx, tok, bestCandidate, requests>>
  /\ UNCHANGED outside

\* a loop that does not break on the candidate it accepts
AfterHeadNoBreak(candidate, ok) ==
  IF ~ok /\ candidate.format = "wfs_service" THEN "negotiate" ELSE "loop"

\* a loop that negotiates a WFS service whatever its plain probe answered
AfterHeadNegotiates(candidate, ok) ==
  IF candidate.format = "wfs_service" THEN "negotiate"
  ELSE IF ok THEN "post"
  ELSE "loop"

\* lines 258-275: where the loop goes once isUrlValid has answered: out of the
\* loop (break), into negotiateWfsFormat, or on to the next candidate
AfterHead(candidate, ok) ==
  IF ok THEN "post"
  ELSE IF candidate.format = "wfs_service" THEN "negotiate"
  ELSE "loop"

\* lines 34-41 and 260-275: the HEAD is answered; the candidate is accepted,
\* or negotiated when it is a WFS service, or the loop goes on
HeadDone(c) ==
  /\ pc[c] = "head"
  /\ LET candidate == candidates[c][idx[c]]
         sent == UrlParses(candidate.url)
     IN  \E r \in HeadResponses :
           LET ok == sent /\ PlainValid(r)
               next == AfterHead(candidate, ok)
           IN  /\ requests' = [requests EXCEPT ![c] =
                                 Append(@, Probe("HEAD", candidate.url, idx[c], 0, sent, ok))]
               /\ inflight' = [inflight EXCEPT ![c] = IF sent THEN @ - 1 ELSE @]
               /\ pc' = [pc EXCEPT ![c] = next]
               /\ bestCandidate' = [bestCandidate EXCEPT ![c] = IF ok THEN candidate ELSE @]
               /\ idx' = [idx EXCEPT ![c] = IF next = "loop" THEN @ + 1 ELSE @]
               /\ tok' = [tok EXCEPT ![c] = IF next = "negotiate" THEN 1 ELSE @]
               /\ reports' = [reports EXCEPT ![c] =
                      @ \cup (IF ok THEN {<<"info", "Lien valide">>} ELSE {InvalidUrlWarning})
                        \cup (IF next = "negotiate"
                              THEN {<<"info", "Service WFS detecte">>} ELSE {})]
  /\ UNCHANGED <<metadata, resourceId, candidates, result>>
  /\ UNCHANGED outside

\* the probe negotiateWfsFormat is at
Test(c) == Negotiations[<<candidates[c][idx[c]], resourceId[c]>>][tok[c]]

\* a loop that stops after the GeoJSON formats
ExhaustedAfterGeoJson(t) == t > 5

\* line 85: the for loop over formatsToTry is over
Exhausted(t) == t > Len(formatsToTry)

\* lines 85-89 and 98-99, 265-269: negotiateWfsFormat takes its next format and
\* the service test sends its GET, or the formats are exhausted, it returns
\* null and the loop goes on
NegotiateNext(c) ==
  /\ pc[c] = "negotiate"
  /\ IF Exhausted(tok[c])
     THEN /\ pc' = [pc EXCEPT ![c] = "loop"]
          /\ idx' = [idx EXCEPT ![c] = @ + 1]
          /\ reports' = [reports EXCEPT ![c] = @ \cup {NoWfsFormatError}]
          /\ UNCHANGED inflight
     ELSE /\ pc' = [pc EXCEPT ![c] = "get"]
          /\ inflight' = [inflight EXCEPT ![c] = IF Test(c).sent THEN @ + 1 ELSE @]
          /\ UNCHANGED <<idx, reports>>
  /\ UNCHANGED <<metadata, resourceId, candidates, tok, bestCandidate, result, requests>>
  /\ UNCHANGED outside

\* lines 7-41 and 89-95, 265-268: the GET is answered; negotiateWfsFormat
\* returns the tested url and findBestDownloadUrl returns it, or the next
\* format is tried
GetDone(c) ==
  /\ pc[c] = "get"
  /\ LET testUrl == Test(c).testUrl
         sent == Test(c).sent
     IN  \E r \in GetResponses :
           LET ok == sent /\ Test(c).accepted[r]
           IN  /\ requests' = [requests EXCEPT ![c] =
                                 Append(@, Probe("GET", Test(c).requestUrl, idx[c], tok[c], sent, ok))]
               /\ inflight' = [inflight EXCEPT ![c] = IF sent THEN @ - 1 ELSE @]
               /\ IF ok
                  THEN /\ pc' = [pc EXCEPT ![c] = "done"]
                       /\ result' = [result EXCEPT ![c] =
                                       [url |-> testUrl, format |-> formatsToTry[tok[c]].format]]
                       /\ reports' = [reports EXCEPT ![c] =
                                        @ \cup {<<"info", "Format WFS supporte trouve">>}]
                       /\ UNCHANGED tok
                  ELSE /\ pc' = [pc EXCEPT ![c] = "negotiate"]
                       /\ tok' = [tok EXCEPT ![c] = @ + 1]
                       /\ reports' = [reports EXCEPT ![c] =
                                        IF sent /\ r.status # 0 /\ r.status < 400
                                           /\ ~Includes(r.data, "ExceptionReport")
                                           /\ ~Includes(r.data, "ServiceException")
                                        THEN @ ELSE @ \cup {InvalidUrlWarning}]
                       /\ UNCHANGED result
  /\ UNCHANGED <<metadata, resourceId, candidates, idx, bestCandidate>>
  /\ UNCHANGED outside

\* lines 286-292 and 302-303, 313: the accepted candidate is post-processed;
\* detectFormatFromHeaders sends its HEAD, or the candidate is returned
PostProcess(c) ==
  /\ pc[c] = "post"
  /\ LET url == bestCandidate[c].url
         format == bestCandidate[c].format
     IN  IF Includes(url, "/api/data/")
         THEN IF UrlParses(url)
              THEN /\ pc' = [pc EXCEPT ![c] = "sniff_api"]
                   /\ inflight' = [inflight EXCEPT ![c] = @ + 1]
                   /\ UNCHANGED result
              ELSE /\ pc' = [pc EXCEPT ![c] = "raised"]
                   /\ UNCHANGED <<inflight, result>>
         ELSE IF format = "unknown"
         THEN /\ pc' = [pc EXCEPT ![c] = "sniff_unknown"]
              /\ inflight' = [inflight EXCEPT ![c] = IF UrlParses(url) THEN @ + 1 ELSE @]
              /\ UNCHANGED result
         ELSE /\ pc' = [pc EXCEPT ![c] = "done"]
              /\ result' = [result EXCEPT ![c] = [url |-> url, format |-> format]]
              /\ UNCHANGED inflight
  /\ UNCHANGED <<metadata, resourceId, candidates, idx, tok, bestCandidate, requests, reports>>
  /\ UNCHANGED outside

\* lines 292-300 and 302, 313: the HEAD on the cleaned API url is answered
ApiSniffDone(c) ==
  /\ pc[c] = "sniff_api"
  /\ LET cleanUrl == CleanUrl(bestCandidate[c].url)
     IN  \E r \in SniffResponses :
           LET detectedFormat == detectFormatFromHeaders(r)
               format == IF detectedFormat # "" THEN detectedFormat ELSE "shapefile"
           IN  /\ requests' = [requests EXCEPT ![c] =
                                 Append(@, Probe("SNIFF", cleanUrl, idx[c], 0, TRUE, detectedFormat # ""))]
               /\ inflight' = [inflight EXCEPT ![c] = IF format = "unknown" THEN @ ELSE @ - 1]
               /\ reports' = [reports EXCEPT ![c] =
                                IF r.status = 0 \/ ~(r.status < 400)
                                THEN @ \cup {SniffWarning} ELSE @]
               /\ IF format = "unknown"
                  THEN /\ pc' = [pc EXCEPT ![c] = "sniff_unknown"]
                       /\ UNCHANGED result
                  ELSE /\ pc' = [pc EXCEPT ![c] = "done"]
                       /\ result' = [result EXCEPT ![c] = [url |-> cleanUrl, format |-> format]]
  /\ UNCHANGED <<metadata, resourceId, candidates, idx, tok, bestCandidate>>
  /\ UNCHANGED outside

\* lines 303-313: the HEAD on the url of unknown format is answered
UnknownSniffDone(c) ==
  /\ pc[c] = "sniff_unknown"
  /\ LET url == IF Includes(bestCandidate[c].url, "/api/data/")
                THEN CleanUrl(bestCandidate[c].url) ELSE bestCandidate[c].url
         sent == UrlParses(url)
     IN  \E r \in SniffResponses :
           LET detectedFormat == IF sent THEN detectFormatFromHeaders(r) ELSE ""
           IN  /\ requests' = [requests EXCEPT ![c] =
                                 Append(@, Probe("SNIFF", url, idx[c], 0, sent, detectedFormat # ""))]
               /\ inflight' = [inflight EXCEPT ![c] = IF sent THEN @ - 1 ELSE @]
               /\ pc' = [pc EXCEPT ![c] = "done"]
               /\ IF detectedFormat # ""
                  THEN /\ result' = [result EXCEPT ![c] = [url |-> url, format |-> detectedFormat]]
                       /\ reports' = [reports EXCEPT ![c] = @ \cup {<<"info", "Format detecte">>}]
                  ELSE /\ result' = [result EXCEPT ![c] = Null]
                       /\ reports' = [reports EXCEPT ![c] =
                                        (IF ~sent \/ r.status = 0 \/ ~(r.status < 400)
                                         THEN @ \cup {SniffWarning} ELSE @)
                                          \cup {NoFormatWarning}]
  /\ UNCHANGED <<metadata, resourceId, candidates, idx, tok, bestCandidate>>
  /\ UNCHANGED outside

Next ==
  \E c \in Calls :
    \/ Extract(c)
    \/ LoopNext(c)
    \/ HeadDone(c)
    \/ NegotiateNext(c)
    \/ GetDone(c)
    \/ PostProcess(c)
    \/ ApiSniffDone(c)
    \/ UnknownSniffDone(c)

Spec == Init /\ [][Next]_vars

(***************************************************************************)
(* Two calls at once                                                       *)
(***************************************************************************)

\* documents that take a call through every step
ConcDocuments ==
  { Metadata(EsriFormat, TransferOptions(Array(<<Library[4], Library[9]>>))),
    Metadata(EsriFormat, TransferOptions(Library[8])) }

\* two calls entered together, each on its own document
InitConc ==
  /\ \E m1 \in ConcDocuments, m2 \in ConcDocuments :
       metadata = [c \in Calls |-> IF c = 1 THEN m1 ELSE m2]
  /\ resourceId = [c \in Calls |-> "parcelles-2024"]
  /\ pc = [c \in Calls |-> "start"]
  /\ InitLocals
  /\ OutsideIdle

SpecConc == InitConc /\ [][Next]_vars

(***************************************************************************)
(* Reading the state of a call                                             *)
(***************************************************************************)

\* everything call c holds
Local(c) ==
  <<metadata[c], resourceId[c], pc[c], candidates[c], idx[c], tok[c],
    bestCandidate[c], result[c], inflight[c], requests[c], reports[c]>>

\* the positions of the probes of call c
Probes(c) == 1..Len(requests[c])

\* the requests call c has put on the network, answered or not
Sent(c) == Cardinality({k \in Probes(c) : requests[c][k].sent}) + inflight[c]

\* the candidates of call c tagged wfs_service
WfsCount(c) ==
  Cardinality({j \in 1..Len(candidates[c]) : candidates[c][j].format = "wfs_service"})

NoWfs(c) == WfsCount(c) = 0

\* the candidates of call c are in descending order of score
Descending(c) ==
  \A j \in 1..(Len(candidates[c]) - 1) :
    candidates[c][j].score >= candidates[c][j + 1].score

\* every format of the negotiation was probed on candidate i and refused
Refused(c, i) ==
  \A t \in 1..13 :
    \E k \in Probes(c) :
      /\ requests[c][k].kind = "GET"
      /\ requests[c][k].cand = i
      /\ requests[c][k].token = t
      /\ ~requests[c][k].ok

\* the document has no online resource to offer
NoOnLine(md) ==
  LET distributionInfo == MDDistribution(md)
  IN  ~Truthy(distributionInfo) \/ AllLinks(distributionInfo) = <<>>

\* the 13 tokens in the order the specification gives them, and their formats
Tokens ==
  << "application/json; subtype=geojson", "geojson", "application/json",
     "application/vnd.geo+json", "json",
     "SHAPE-ZIP", "shapezip", "application/zip", "application/x-shapefile",
     "csv", "text/csv",
     "kml", "application/vnd.google-earth.kml+xml" >>

TokenFormat(t) ==
  IF t <= 5 THEN "geojson" ELSE IF t <= 9 THEN "shapefile"
  ELSE IF t <= 11 THEN "csv" ELSE "kml"

(***************************************************************************)
(* The caller gives a call up                                              *)
(***************************************************************************)

\* line 218 and lines 12, 35, 104: findBestDownloadUrl takes (metadata,
\* resourceId, log) and its requests are sent without a signal, so a caller
\* that gives the call up (a timeout around the promise, an abort) changes
\* nothing the call reads; the number of requests sent so far is noted
Cancel(c) ==
  /\ pc[c] \notin {"off", "done", "raised"}
  /\ cancelled[c] = -1
  /\ cancelled' = [cancelled EXCEPT ![c] = Sent(c)]
  /\ UNCHANGED <<resolverVars, helperVars, importVars>>

\* one call, which its caller may give up at any point
InitCancel ==
  /\ \E md \in ConcDocuments :
       metadata = [c \in Calls |-> IF c = 1 THEN md ELSE MetadataNoDistributionInfo]
  /\ resourceId = [c \in Calls |-> IF c = 1 THEN "parcelles-2024" ELSE ""]
  /\ pc = [c \in Calls |-> IF c = 1 THEN "start" ELSE "off"]
  /\ InitLocals
  /\ OutsideIdle

NextCancel ==
  \/ Next
  \/ \E c \in Calls : Cancel(c)

SpecCancel == InitCancel /\ [][NextCancel]_vars

(***************************************************************************)
(* The helpers, each called on its own                                     *)
(***************************************************************************)

\* urls of online resources: WFS requests that name their output format,
\* API exports, files and pages
LinkUrls ==
  {"https://example.org/wfs?service=wfs&outputformat=gml3",
   "https://example.org/wfs?SERVICE=WFS&typeName=parcelles&outputFormat=geojson",
   "https://example.org/wfs?service=WFS&outputFormat=application/json",
   "https://example.org/wfs?service=WFS&outputFormat=csv",
   "https://example.org/wfs?service=WFS&outputFormat=shape-zip",
   "https://geojson.example.org/wfs?service=wfs&outputformat=gml3",
   "https://example.org/wfs?service=WFS&typeName=zip_codes&outputFormat=gml3",
   "https://example.org/csv/wfs?service=WFS&outputFormat=shape-zip",
   "https://example.org/api/data/parcelles.zip",
   "https://example.org/API/Records/export.geojson",
   "https://example.org/files/parcelles.zip",
   "https://example.org/data.geojson",
   "https://example.org/export.csv",
   "https://example.org/carte.kml",
   "https://example.org/data.json",
   "https://example.org/wfs?service=WFS",
   "https://example.org/download/123"}

LinkProtocols ==
  {"WWW:DOWNLOAD-1.0-http--download", "OGC:WFS", "application/geo+json",
   "text/csv", "application/vnd.google-earth.kml+xml", "application/json"}

LinkNames == {"", "Parcelles", "Shapefile", "GeoJSON", "csv", "json"}

\* online resources whose url, protocol and name are text, and the library
TextLinks ==
  {Wrapped(OnlineResource(Str(url), CharacterString(Str(p)), CharacterString(Str(name)))) :
     url \in LinkUrls, p \in LinkProtocols, name \in LinkNames}

\* the shapes the parser gives a protocol or a name: absent, a string, a
\* wrapper around a string, a number or a nested object, a bare number
FieldShapes ==
  {Undefined, Str("OGC:WFS"), CharacterString(Str("OGC:WFS")),
   CharacterString(Num(2)), CharacterString(EmptyObject), Num(7)}

\* online resources with no url, of every shape of protocol and name
NoUrlLinks ==
  {Wrapped(OnlineResource(url, p, name)) :
     url \in {Undefined, Str("")}, p \in FieldShapes, name \in FieldShapes}

\* answers to the GET of the service test, the 4xx answers with a body
ServiceTestResponses ==
  GetResponses
    \cup {Response(s, d, t) :
            s \in {400, 404},
            d \in {"<wfs:FeatureCollection/>", "<ows:ExceptionReport/>"},
            t \in {"application/json", "text/xml"}}

\* the urls negotiateWfsFormat tests for one service, one per format
NegotiatedTestUrls ==
  Table([t \in 1..Len(formatsToTry) |->
    NegotiatedUrl("https://example.org/wfs?service=WFS", "parcelles-2024",
                  Str("ms:parcelles"), t)])

\* urls the service test is called on
ServiceTestUrls ==
  {"https://example.org/wfs?SERVICE=WFS&OUTPUTFORMAT=application%2Fjson",
   "https://example.org/wfs?SERVICE=WFS&OUTPUTFORMAT=shape-zip"}
    \cup {NegotiatedTestUrls[t] : t \in 1..Len(formatsToTry)}

\* answers to the HEAD of the plain probe
PlainTestResponses ==
  HeadResponses \cup {Response(s, "", "") : s \in {204, 399, 400, 503}}

\* urls the plain probe is called on, the last one relative
PlainTestUrls ==
  {"https://example.org/data.geojson", "https://example.org/wfs?service=WFS",
   "/api/data/export"}

\* the inputs getText is called on: absent, null, strings, numbers, an array,
\* wrappers and text nodes around a string, a number or a nested object
TextInputs ==
  {Undefined, Null, Str(""), Str("Parcelles"), Num(0), Num(7), Array(<<>>),
   EmptyObject,
   CharacterString(Str("Parcelles")), CharacterString(Str("")),
   CharacterString(Num(2154)), CharacterString(Num(0)),
   CharacterString(EmptyObject), CharacterString(CharacterString(Str("Parcelles"))),
   HashText(Str("Parcelles")), HashText(Num(2154)), HashText(EmptyObject)}

\* urls of WFS services negotiateWfsFormat is called on: keys in several letter
\* cases, repeated keys, an encoded value, and a proxied service whose query
\* holds a second question mark
WfsServiceUrls ==
  {"https://example.org/wfs?service=WFS",
   "https://geo.example.org/ows?SERVICE=WFS&REQUEST=GetCapabilities&map=a+b",
   "https://example.org/wfs?Service=wfs&layer=a&TypeName=old&srsName=EPSG:2154&maxFeatures=50&Version=1.1.0&layer=b&OutputFormat=gml3",
   "https://example.org/proxy?url=https://geo.example.org/wfs?service=WFS&key=abc"}

\* the names negotiateWfsFormat is given for the layer
LayerNames == {Undefined, Str(""), Str("ms:parcelles")}

\* the calls: analyzeLink(linkWrapper), detectFormatFromHeaders on the answer
\* to its HEAD, isUrlValid(url, log, true) on the answer to its GET,
\* isUrlValid(url, log) on the answer to its HEAD, and the url
\* negotiateWfsFormat(originalUrl, resourceId, layerName, log) tests for a format
HelperCalls ==
  {[fn |-> "getText", input |-> v] : v \in TextInputs} \cup
  {[fn |-> "negotiateWfsFormat", originalUrl |-> u, rid |-> i, layerName |-> n,
    token |-> t] :
     u \in WfsServiceUrls, i \in ResourceIds, n \in LayerNames,
     t \in 1..Len(formatsToTry)} \cup
  {[fn |-> "isUrlValidHead", url |-> u, response |-> r] :
     u \in PlainTestUrls, r \in PlainTestResponses} \cup
  {[fn |-> "analyzeLink", link |-> l] :
     l \in TextLinks \cup NoUrlLinks \cup {Library[j] : j \in 1..Len(Library)}}
    \cup {[fn |-> "detectFormatFromHeaders", response |-> r] : r \in SniffResponses}
    \cup {[fn |-> "isUrlValid", url |-> u, response |-> r] :
            u \in ServiceTestUrls, r \in ServiceTestResponses}

ApplyAnalyzeLink ==
  /\ applied = "" /\ given.fn = "analyzeLink"
  /\ applied' = "analyzeLink"
  /\ returned' = analyzeLink(given.link)
  /\ UNCHANGED <<resolverVars, cancelled, given, importVars>>

ApplyDetectFormat ==
  /\ applied = "" /\ given.fn = "detectFormatFromHeaders"
  /\ applied' = "detectFormatFromHeaders"
  /\ returned' = detectFormatFromHeaders(given.response)
  /\ UNCHANGED <<resolverVars, cancelled, given, importVars>>

ApplyServiceTest ==
  /\ applied = "" /\ given.fn = "isUrlValid"
  /\ applied' = "isUrlValid"
  /\ returned' = ServiceTestValid(given.url, given.response)
  /\ UNCHANGED <<resolverVars, cancelled, given, importVars>>

\* utils/common.ts lines 6-12: getText(input)
ApplyGetText ==
  /\ applied = "" /\ given.fn = "getText"
  /\ applied' = "getText"
  /\ returned' = getText(given.input)
  /\ UNCHANGED <<resolverVars, cancelled, given, importVars>>

\* lines 52-88: the url negotiateWfsFormat builds and tests for a format
ApplyNegotiatedUrl ==
  /\ applied = "" /\ given.fn = "negotiateWfsFormat"
  /\ applied' = "negotiateWfsFormat"
  /\ returned' = NegotiatedUrl(given.originalUrl, given.rid, given.layerName, given.token)
  /\ UNCHANGED <<resolverVars, cancelled, given, importVars>>

\* lines 34-41: the plain probe; a url axios cannot request throws inside the
\* try and the catch returns false
ApplyPlainTest ==
  /\ applied = "" /\ given.fn = "isUrlValidHead"
  /\ applied' = "isUrlValidHead"
  /\ returned' = (UrlParses(given.url) /\ PlainValid(given.response))
  /\ UNCHANGED <<resolverVars, cancelled, given, importVars>>

\* no call of findBestDownloadUrl; one helper call on any of its arguments
InitHelpers ==
  /\ metadata = [c \in Calls |-> MetadataNoDistributionInfo]
  /\ resourceId = [c \in Calls |-> ""]
  /\ pc = [c \in Calls |-> "off"]
  /\ InitLocals
  /\ cancelled = [c \in Calls |-> -1]
  /\ applied = ""
  /\ given \in HelperCalls
  /\ returned = Null
  /\ ImportIdle

NextHelpers ==
  \/ ApplyAnalyzeLink
  \/ ApplyDetectFormat
  \/ ApplyServiceTest
  \/ ApplyPlainTest
  \/ ApplyNegotiatedUrl
  \/ ApplyGetText

SpecHelpers == InitHelpers /\ [][NextHelpers]_vars

(***************************************************************************)
(* getResource of lib/imports.ts and downloadFileWithProgress              *)
(***************************************************************************)

\* x || ''
OrEmpty(v) == IF Truthy(v) THEN v ELSE Str("")

\* link.CI_OnlineResource?.protocol?.CharacterString || '', and the like
CharacterStringOrEmpty(v) ==
  IF v.k = "object" THEN OrEmpty(v.CharacterString) ELSE Str("")

\* the decision list of the import, on strings; Null for no candidate
ImportClassify(url, protocol, name) ==
  LET u == ToLowerCase(url)
      p == ToLowerCase(protocol)
      n == ToLowerCase(name)
  IN  IF Includes(u, "outputformat=shape-zip") \/ Includes(u, "shape-zip")
           \/ EndsWith(u, ".zip") \/ Includes(n, "shapefile")
        THEN Candidate(url, "shapefile", 10, Undefined)
      ELSE IF Includes(u, "geojson") \/ Includes(p, "geo+json") \/ Includes(n, "geojson")
        THEN Candidate(url, "geojson", 4, Undefined)
      ELSE IF Includes(u, "/csv") \/ Includes(u, ".csv") \/ Includes(p, "text/csv")
              \/ n = "csv"
        THEN Candidate(url, "csv", 6, Undefined)
      ELSE IF /\ \/ Includes(u, "/json") \/ Includes(u, ".json")
                 \/ Includes(p, "application/json") \/ n = "json"
              /\ ~Includes(u, "geojson")
        THEN Candidate(url, "json", 8, Undefined)
      ELSE IF Includes(p, "ogc:wfs") \/ Includes(u, "service=wfs")
        THEN Candidate(url, "wfs_construct", 2, Undefined)
      ELSE Null

\* the analyzeLink of the import: Null for a link without url, Raise where
\* toLowerCase is called on a value that is no string
ImportAnalyzeLink(link) ==
  LET res == link.CI_OnlineResource
      url == IF Truthy(res) THEN OrEmpty(res.URL) ELSE Str("")
      protocol == IF Truthy(res) THEN CharacterStringOrEmpty(res.protocol) ELSE Str("")
      name == IF Truthy(res) THEN CharacterStringOrEmpty(res.name) ELSE Str("")
  IN  IF ~Truthy(url) THEN Null
      ELSE IF url.k # "string" \/ protocol.k # "string" \/ name.k # "string" THEN Raise
      ELSE ImportClassify(url.s, protocol.s, name.s)

ImportAnalysedLibrary ==
  Table([j \in 1..Len(Library) |-> ImportAnalyzeLink(Library[j])])

\* ImportAnalyzeLink(link) for an entry of an onLine list
ImportAnalysed(link) ==
  IF \E j \in 1..Len(Library) : Library[j] = link
  THEN ImportAnalysedLibrary[CHOOSE j \in 1..Len(Library) : Library[j] = link]
  ELSE ImportAnalyzeLink(link)

\* the onLine entries of one transfer option: only under MD_DigitalTransferOptions
ImportOnLineOf(transfer) ==
  LET digitalTransfer == transfer.MD_DigitalTransferOptions
  IN  IF Truthy(digitalTransfer) /\ Truthy(digitalTransfer.onLine)
      THEN asArray(digitalTransfer.onLine) ELSE <<>>

RECURSIVE ImportFlatten(_)
ImportFlatten(transfers) ==
  IF transfers = <<>> THEN <<>>
  ELSE ImportOnLineOf(Head(transfers)) \o ImportFlatten(Tail(transfers))

RECURSIVE ImportBest(_, _)
\* the for loop: a candidate replaces the best one only with a higher score
ImportBest(best, analysed) ==
  IF analysed = <<>> THEN best
  ELSE LET candidate == Head(analysed)
       IN  ImportBest(IF candidate # Null /\ (best = Null \/ candidate.score > best.score)
                      THEN candidate ELSE best,
                      Tail(analysed))

\* s.indexOf(n), 1-based; 0 when absent
IndexOfString(s, n) ==
  LET hits == {i \in 1..(Len(s) - Len(n) + 1) : SubSeq(s, i, i + Len(n) - 1) = n}
  IN  IF hits = {} THEN 0 ELSE CHOOSE i \in hits : \A j \in hits : i <= j

\* the one element of a set of one element
Only(S) == CHOOSE v \in S : TRUE

\* url with the match that starts at position at, up to the next "&" or the
\* end, replaced
ReplaceAt(url, at, replacement) ==
  Only({ SubSeq(url, 1, at - 1) \o replacement
           \o (IF amp = 0 THEN "" ELSE SubSeq(url, at + amp - 1, Len(url)))
         : amp \in {IndexOf(SubSeq(url, at, Len(url)), "&")} })

\* url.replace(/key=[^&]*/i, replacement): the first match, in any case
ReplaceParam(url, key, replacement) ==
  Only({ IF at = 0 THEN url ELSE ReplaceAt(url, at, replacement)
         : at \in {IndexOfString(ToLowerCase(url), key \o "=")} })

\* the url of a WFS candidate, built on its base url
ConstructedUrl(url, rid) ==
  UrlBase(url) \o "?"
    \o ParamsToString(<< <<"SERVICE", "WFS">>, <<"VERSION", "2.0.0">>,
                         <<"REQUEST", "GetFeature">>, <<"typeName", rid>>,
                         <<"OUTPUTFORMAT", "SHAPE-ZIP">> >>)

\* the url of another candidate that holds service=wfs, its parameters rewritten
RewrittenUrl(url, format) ==
  Only({ IF format = "shapefile"
           THEN ReplaceParam(fixed, "outputformat", "OUTPUTFORMAT=SHAPE-ZIP")
         ELSE IF format = "csv" THEN ReplaceParam(fixed, "outputformat", "OUTPUTFORMAT=csv")
         ELSE IF format = "geojson"
           THEN ReplaceParam(fixed, "outputformat", "OUTPUTFORMAT=application/json")
         ELSE fixed
         : fixed \in {ReplaceParam(ReplaceParam(ReplaceParam(url, "service", "SERVICE=WFS"),
                                                "version", "VERSION=2.0.0"),
                                   "request", "REQUEST=GetFeature")} })

\* the url and format of the best candidate, Null without one
SelectedDownload(best, rid) ==
  IF best = Null THEN Null
  ELSE IF best.format = "wfs_construct"
    THEN [url |-> ConstructedUrl(best.url, rid), format |-> "shapefile"]
  ELSE IF Includes(ToLowerCase(best.url), "service=wfs")
    THEN [url |-> RewrittenUrl(best.url, best.format), format |-> best.format]
  ELSE [url |-> best.url, format |-> best.format]

\* what the analysis of every link comes to
DownloadOfAnalysed(analysed, rid) ==
  IF analysed = <<>> THEN Null
  ELSE IF \E j \in 1..Len(analysed) : analysed[j] = Raise THEN Raise
  ELSE Only({SelectedDownload(best, rid) : best \in {ImportBest(Null, analysed)}})

\* the findBestDownloadUrl of the import: Raise, Null, or [url, format]
ImportFindBestDownloadUrl(md, rid) ==
  Only({ IF ~Truthy(distributionInfo) THEN Null
         ELSE Only({ DownloadOfAnalysed([j \in 1..Len(allLinks) |->
                                           ImportAnalysed(allLinks[j])], rid)
                     : allLinks \in {ImportFlatten(asArray(distributionInfo.transferOptions))} })
         : distributionInfo \in {MDDistribution(md)} })

\* path.extname(p): from the last dot of the last segment, unless that dot
\* is its first character
ExtName(p) ==
  LET parts == SplitOn(p, "/")
      base == parts[Len(parts)]
      dots == {i \in 1..Len(base) : SubSeq(base, i, i) = "."}
      last == CHOOSE i \in dots : \A j \in dots : j <= i
  IN  IF dots = {} THEN ""
      ELSE IF last = 1 THEN ""
      ELSE SubSeq(base, last, Len(base))

\* the file name of the download: the resource id and the extension of the format
FileName(rid, info) ==
  rid \o (IF info.format = "shapefile" THEN ".zip"
          ELSE IF info.format = "geojson" THEN ".geojson"
          ELSE IF info.format = "csv" THEN ".csv"
          ELSE IF info.format = "json" THEN ".json"
          ELSE ExtName(UrlBase(info.url)))

RECURSIVE JoinWith(_, _)
\* parts.join(sep)
JoinWith(parts, sep) ==
  IF parts = <<>> THEN ""
  ELSE IF Len(parts) = 1 THEN parts[1]
  ELSE parts[1] \o sep \o JoinWith(Tail(parts), sep)

\* path.normalize on a path without '..': empty and '.' segments go
Normalize(p) ==
  LET kept == SelectSeq(SplitOn(p, "/"), LAMBDA x : x # "" /\ x # ".")
      body == JoinWith(kept, "/")
  IN  IF StartsWith(p, "/") THEN "/" \o body
      ELSE IF body = "" THEN "."
      ELSE body

\* path.join(dir, name)
PathJoin(dir, name) == Normalize(dir \o "/" \o name)

\* what the catch block of getResource gives to log.error
GetResourceError(msg) == "Erreur lors du getResource: " \o msg

\* the error getResource throws from its catch block
WrappedError(msg) == [k |-> "error", message |-> "Echec de l'import CSW: " \o msg]

\* a catch block that swallows the error and resolves with nothing
Swallowed(msg) == [k |-> "undefined"]

\* lines 194-198: the catch block of getResource
Caught(msg) == WrappedError(msg)

\* the Resource getResource returns
Resource(rid, filePath, format) ==
  [k |-> "resource", id |-> rid, filePath |-> filePath, format |-> format, size |-> 0]

\* the parsed answers of the catalogue: an exception report, an empty
\* GetRecordByIdResponse (an unknown id), a response without MD_Metadata, and
\* the responses that hold a record
CswParsed(responseRoot) == [k |-> "object", GetRecordByIdResponse |-> responseRoot]

CswRoot(md) == [k |-> "object", MD_Metadata |-> md]

\* the records of the catalogue: without online resource, of other shapes,
\* and with one or two online resources, where the best of two is chosen
CswRecords ==
  EmptyDocuments \cup ShapedDocuments
    \cup {Metadata(EsriFormat, TransferOptions(OneOrArray(l))) : l \in LinkLists(2) \ {<<>>}}

CswAnswers ==
  { [k |-> "failure"], CswParsed(Undefined), CswParsed(Str("")), CswParsed(CswRoot(Undefined)) }
    \cup {CswParsed(CswRoot(md)) : md \in CswRecords}

\* the chunks of the longest response stream
MaxChunks == 2

\* answers to the GET of the download: no answer, an error status, or a
\* stream of some chunks that may break
DownloadAnswers ==
  {[status |-> s, chunks |-> 0] : s \in {0, 404, 500}}
    \cup {[status |-> 200, chunks |-> n] : n \in 0..MaxChunks}

TmpDirs == {"./data/test/downloads", "/tmp/import/"}

\* what the parsed answer comes to before any download: a message for the
\* error thrown, or the download information
Resolution(answer, rid) ==
  IF answer.k = "failure" THEN [k |-> "throw", message |-> "Network Error"]
  ELSE IF ~Truthy(answer.GetRecordByIdResponse)
    THEN [k |-> "throw", message |-> "Reponse CSW vide ou invalide"]
  ELSE IF ~Truthy(answer.GetRecordByIdResponse.MD_Metadata)
    THEN [k |-> "throw", message |-> "Metadonnees ISO 19139 introuvables"]
  ELSE Only({ IF info = Raise
                THEN [k |-> "throw", message |-> "toLowerCase is not a function"]
              ELSE IF info = Null
                THEN [k |-> "throw",
                      message |-> "Aucun lien de telechargement trouve pour " \o rid]
              ELSE [k |-> "download", info |-> info]
              : info \in {ImportFindBestDownloadUrl(answer.GetRecordByIdResponse.MD_Metadata,
                                                     rid)} })

\* the file at a path is created or emptied
Truncated(files, path) ==
  {f \in files : f.path # path} \cup {[path |-> path, written |-> 0]}

\* a chunk is written to the file at a path
Written(files, path) ==
  {IF f.path = path THEN [f EXCEPT !.written = @ + 1] ELSE f : f \in files}

\* fs.unlink
Unlinked(files, path) == {f \in files : f.path # path}

\* lines 128-183 and download lines 104-108: the CSW request is answered; the
\* answer is parsed and resolved, then the write stream is created and the GET
\* of the download is sent, or the error is caught and rethrown
PostDone ==
  /\ step = "post"
  /\ \E answer \in CswAnswers :
       \E res \in {Resolution(answer, context.resourceId)} :
           /\ parsed' = answer
           /\ IF res.k = "throw"
              THEN /\ step' = "rejected"
                   /\ errorLog' = Append(errorLog, GetResourceError(res.message))
                   /\ outcome' = Caught(res.message)
                   /\ UNCHANGED <<downloadInfo, destPath, disk>>
              ELSE /\ step' = "get"
                   /\ downloadInfo' = res.info
                   /\ destPath' = PathJoin(context.tmpDir, FileName(context.resourceId, res.info))
                   /\ disk' = Truncated(disk, destPath')
                   /\ UNCHANGED <<errorLog, outcome>>
  /\ UNCHANGED <<context, stream>>
  /\ UNCHANGED <<resolverVars, cancelled, helperVars>>

\* download lines 108-137 and 161-203: the GET is answered. A stream is piped
\* to the writer; a 4xx answer is logged and thrown, the file left as it is;
\* any other failure closes the writer and unlinks the file
GetAnswered ==
  /\ step = "get"
  /\ \E answer \in DownloadAnswers :
       IF answer.status = 200
       THEN /\ step' = "pipe"
            /\ stream' = [total |-> answer.chunks, left |-> answer.chunks]
            /\ UNCHANGED <<disk, errorLog, outcome>>
       ELSE IF answer.status >= 400 /\ answer.status < 500
       THEN /\ step' = "rejected"
            /\ errorLog' = errorLog \o <<"Fichier introuvable (404)",
                                          GetResourceError("Fichier introuvable (404)")>>
            /\ outcome' = Caught("Fichier introuvable (404)")
            /\ UNCHANGED <<disk, stream>>
       ELSE /\ step' = "rejected"
            /\ disk' = Unlinked(disk, destPath)
            /\ errorLog' = Append(errorLog, GetResourceError("Request failed"))
            /\ outcome' = Caught("Request failed")
            /\ UNCHANGED stream
  /\ UNCHANGED <<context, parsed, downloadInfo, destPath>>
  /\ UNCHANGED <<resolverVars, cancelled, helperVars>>

\* download line 137: a chunk of the response goes through the pipe to the file
ChunkWritten ==
  /\ step = "pipe"
  /\ stream.left > 0
  /\ stream' = [stream EXCEPT !.left = @ - 1]
  /\ disk' = Written(disk, destPath)
  /\ UNCHANGED <<step, context, parsed, downloadInfo, destPath, errorLog, outcome>>
  /\ UNCHANGED <<resolverVars, cancelled, helperVars>>

\* download lines 149-159: the response stream breaks; the writer is closed,
\* the partial file unlinked and the promise rejected
StreamError ==
  /\ step = "pipe"
  /\ stream.left > 0
  /\ step' = "rejected"
  /\ disk' = Unlinked(disk, destPath)
  /\ errorLog' = Append(errorLog, GetResourceError("aborted"))
  /\ outcome' = Caught("aborted")
  /\ UNCHANGED <<context, parsed, downloadInfo, destPath, stream>>
  /\ UNCHANGED <<resolverVars, cancelled, helperVars>>

\* a promise resolved as soon as the pipe is set up
FinishedAtOnce(s) == TRUE

\* download lines 142-146: the writer emits 'finish' once the stream has ended
\* and all of it is written
Finished(s) == s.left = 0

\* download lines 142-146 and lines 183-193: the promise of the download
\* resolves and getResource returns its Resource
WriterFinish ==
  /\ step = "pipe"
  /\ Finished(stream)
  /\ step' = "resolved"
  /\ outcome' = Resource(context.resourceId, destPath, downloadInfo.format)
  /\ UNCHANGED <<context, parsed, downloadInfo, destPath, stream, disk, errorLog>>
  /\ UNCHANGED <<resolverVars, cancelled, helperVars>>

\* one call of getResource, its CSW request sent
InitImport ==
  /\ metadata = [c \in Calls |-> MetadataNoDistributionInfo]
  /\ resourceId = [c \in Calls |-> ""]
  /\ pc = [c \in Calls |-> "off"]
  /\ InitLocals
  /\ cancelled = [c \in Calls |-> -1]
  /\ applied = "" /\ given = Null /\ returned = Null
  /\ step = "post"
  /\ \E rid \in ResourceIds, dir \in TmpDirs :
       context = [resourceId |-> rid, tmpDir |-> dir]
  /\ parsed = Null
  /\ downloadInfo = Null
  /\ destPath = ""
  /\ stream = Null
  /\ disk = {}
  /\ errorLog = <<>>
  /\ outcome = Null

NextImport ==
  \/ PostDone
  \/ GetAnswered
  \/ ChunkWritten
  \/ StreamError
  \/ WriterFinish

SpecImport == InitImport /\ [][NextImport]_vars

(***************************************************************************)
(* The claims                                                              *)
(***************************************************************************)

\* C1: a call never returns a result whose format is wfs_service or unknown.
\* Refuted: a wfs_service candidate whose plain HEAD succeeds is returned as is.
C1_ConcreteFormat ==
  \A c \in Calls :
    (pc[c] = "done" /\ result[c] # Null) =>
      result[c].format \notin {"wfs_service", "unknown"}

\* C2: a call never raises, it ends with a result or with null.
\* Refuted: getText hands back a number and toLowerCase is called on it.
C2_NeverRaises ==
  \A c \in Calls : pc[c] # "raised"

\* C3: with no wfs_service candidate, the candidates are probed one by one in
\* descending order of score, the accepted candidate is the first whose HEAD
\* succeeds, and when no HEAD succeeds the call returns null with the warning
\* and raises nothing.
C3_FirstReachableByScore ==
  \A c \in Calls :
    (candidates[c] # <<>> /\ NoWfs(c)) =>
      /\ pc[c] # "raised"
      /\ Descending(c)
      /\ \A k \in Probes(c) :
           requests[c][k].kind = "HEAD" => requests[c][k].cand = k
      /\ bestCandidate[c] # Null =>
           \E i \in Probes(c) :
             /\ requests[c][i].kind = "HEAD"
             /\ requests[c][i].ok
             /\ bestCandidate[c] = candidates[c][i]
             /\ \A j \in 1..(i - 1) :
                  requests[c][j].kind = "HEAD" /\ ~requests[c][j].ok
      /\ (pc[c] = "done" /\ \A k \in Probes(c) : ~requests[c][k].ok) =>
           /\ result[c] = Null
           /\ NoLinkWarning \in reports[c]

\* C3 witness: the csv link of higher score is unreachable, the kml link of
\* lower score is reachable and is the one returned
C3_Witness ==
  /\ pc[1] = "done"
  /\ Len(candidates[1]) = 2
  /\ candidates[1][1].format = "csv"
  /\ candidates[1][1].score > candidates[1][2].score
  /\ Len(requests[1]) = 2
  /\ ~requests[1][1].ok
  /\ requests[1][2].ok
  /\ result[1] = [url |-> "https://example.org/carte.kml", format |-> "kml"]

\* C4: a document without distributionInfo, without transferOptions or without
\* any onLine entry makes the call return null with no request sent.
\* Refuted: a distributionFormat whose name is a number raises first (see C2).
C4_NoLinkNoRequest ==
  \A c \in Calls :
    (pc[c] \notin {"off", "start"} /\ NoOnLine(metadata[c])) =>
      /\ pc[c] = "done"
      /\ result[c] = Null
      /\ requests[c] = <<>>
      /\ inflight[c] = 0

C6_FormatsInOrder ==
  \A c \in Calls :
    \A k \in Probes(c) :
      LET q == requests[c][k]
      IN  q.kind = "GET" =>
            /\ q.token \in 1..13
            /\ k > 1
            /\ requests[c][k - 1].cand = q.cand
            /\ ~requests[c][k - 1].ok
            /\ IF q.token = 1
               THEN requests[c][k - 1].kind = "HEAD"
               ELSE /\ requests[c][k - 1].kind = "GET"
                    /\ requests[c][k - 1].token = q.token - 1
            /\ q.ok =>
                 /\ k = Len(requests[c])
                 /\ pc[c] = "done"
                 /\ inflight[c] = 0
                 /\ result[c] # Null
                 /\ result[c].format = TokenFormat(q.token)
                 /\ EndsWith(result[c].url,
                             "&OUTPUTFORMAT=" \o UrlEncode(Tokens[q.token]))

\* C6 witness: the nine GeoJSON and shapefile tokens were refused, the first
\* CSV token was accepted and csv is returned
C6_Witness ==
  /\ pc[1] = "done"
  /\ result[1] # Null
  /\ result[1].format = "csv"
  /\ Len(requests[1]) = 11
  /\ requests[1][11].kind = "GET"
  /\ requests[1][11].token = 10
  /\ requests[1][11].ok

\* C7: the only link is https://example.org/wfs?service=WFS, the resource id is
\* parcelles-2024 and the server honours SHAPE-ZIP alone: the call returns the
\* SHAPE-ZIP url as shapefile whatever the answer to the first HEAD.
\* Refuted: when that HEAD succeeds the raw link is returned (see C1).
C7_ShapeZipScenario ==
  \A c \in Calls :
    (/\ pc[c] = "done"
     /\ ~NoOnLine(metadata[c])
     /\ AllLinks(MDDistribution(metadata[c])) = <<Library[4]>>
     /\ resourceId[c] = "parcelles-2024"
     /\ \A k \in Probes(c) :
          requests[c][k].kind = "GET" =>
            (requests[c][k].ok <=> requests[c][k].token = 6))
    => result[c] =
         [url |-> "https://example.org/wfs?SERVICE=WFS&VERSION=2.0.0&REQUEST=GetFeature&TYPENAMES=parcelles-2024&OUTPUTFORMAT=SHAPE-ZIP",
          format |-> "shapefile"]

\* C8: the candidates are probed in descending order of score and no HEAD or
\* GET follows an accepted one: after the first success only the sniff of the
\* accepted candidate may be sent.
C8_StopAtFirstSuccess ==
  \A c \in Calls :
    /\ Descending(c)
    /\ \A k \in 1..(Len(requests[c]) - 1) :
         LET q == requests[c][k]
             n == requests[c][k + 1]
         IN  /\ n.cand >= q.cand
             /\ q.kind = "SNIFF" => n.kind = "SNIFF"
             /\ (q.kind \in {"HEAD", "GET"} /\ q.ok) =>
                  n.kind = "SNIFF" /\ n.cand = q.cand
    /\ pc[c] \in {"loop", "head", "negotiate", "get"} =>
         \A k \in Probes(c) : ~requests[c][k].ok

\* C8 witness: of two candidates the first is accepted and the second is
\* never probed
C8_Witness ==
  /\ pc[1] = "done"
  /\ Len(candidates[1]) = 2
  /\ Len(requests[1]) = 1
  /\ requests[1][1].ok
  /\ result[1] # Null

\* C9 as stated: a call sends at most (number of candidates) + 13 + 1 requests.
C9_WithinOneNegotiation ==
  \A c \in Calls : Sent(c) <= Len(candidates[c]) + 13 + 1

\* C9 amended: every unreachable wfs_service candidate is negotiated, so a call
\* sends at most (number of candidates) + 13 * (number of wfs_service
\* candidates) + 1 requests.
C9_WithinItsNegotiations ==
  \A c \in Calls : Sent(c) <= Len(candidates[c]) + 13 * WfsCount(c) + 1

\* C9 witness: two unreachable raw WFS links, negotiated one after the other
C9_Witness ==
  /\ pc[1] = "done"
  /\ WfsCount(1) = 2
  /\ Sent(1) = 28

\* C10: a call has at most one request in flight, a request leaves only when
\* none is in flight, and a step of one call changes nothing another call holds.
C10_OneRequestAtATime ==
  [][ /\ \A c \in Calls :
           /\ inflight'[c] <= 1
           /\ inflight'[c] > inflight[c] => inflight[c] = 0
      /\ \E c \in Calls : \A d \in Calls \ {c} : Local(d)' = Local(d) ]_vars

\* C10 witness: both calls have a request in flight at the same time
C10_Witness ==
  /\ inflight[1] = 1
  /\ inflight[2] = 1
  /\ pc[1] = "get"
  /\ pc[2] = "sniff_api"

\* C11: once the caller has cancelled a call, the request in flight is aborted
\* and the call sends no further request.
\* Refuted: the call has no cancellation input and goes on probing.
C11_CancelStopsProbing ==
  \A c \in Calls :
    cancelled[c] >= 0 =>
      /\ inflight[c] = 0
      /\ Sent(c) <= cancelled[c]

\* the candidates of a document in the order of its links
Extracted(md) ==
  LET links == AllLinks(MDDistribution(md))
  IN  SelectSeq([j \in 1..Len(links) |-> Analysed(links[j])],
                LAMBDA a : a.k = "candidate")

\* ordered is ex rearranged by descending score, equal scores in the order of ex
StableDescending(ex, ordered) ==
  /\ Len(ordered) = Len(ex)
  /\ \E p \in [1..Len(ex) -> 1..Len(ex)] :
       /\ \A i \in 1..Len(ex) : \A j \in 1..Len(ex) : i # j => p[i] # p[j]
       /\ \A i \in 1..Len(ex) : ordered[i] = ex[p[i]]
       /\ \A i \in 1..Len(ex) : \A j \in 1..Len(ex) :
            i < j => \/ ordered[i].score > ordered[j].score
                     \/ ordered[i].score = ordered[j].score /\ p[i] < p[j]

\* C12: the probing order is the extraction order sorted by descending score,
\* candidates of equal score keeping the order in which their links were
\* extracted.
C12_StableSort ==
  \A c \in Calls :
    candidates[c] # <<>> =>
      StableDescending(Extracted(metadata[c]), candidates[c])

\* C12 witness: two different candidates of equal score stand in the order of
\* the document
C12_Witness ==
  /\ Len(candidates[1]) = 2
  /\ candidates[1][1].score = candidates[1][2].score
  /\ candidates[1][1].url # candidates[1][2].url
  /\ candidates[1] = Extracted(metadata[1])
  /\ pc[1] = "done"

\* the record of the parsed CSW answer, Undefined when the answer has no
\* GetRecordByIdResponse or no MD_Metadata
AnsweredRecord ==
  IF ~Truthy(parsed.GetRecordByIdResponse) THEN Undefined
  ELSE parsed.GetRecordByIdResponse.MD_Metadata

\* what the failure of an answered CSW request is, "" when there is none:
\* no response element, no record, or no download link in the record
AbsenceOf(rid) ==
  IF ~Truthy(parsed.GetRecordByIdResponse) THEN "Reponse CSW vide ou invalide"
  ELSE IF ~Truthy(AnsweredRecord) THEN "Metadonnees ISO 19139 introuvables"
  ELSE IF ImportFindBestDownloadUrl(AnsweredRecord, rid) = Null
    THEN "Aucun lien de telechargement trouve pour " \o rid
  ELSE ""

\* C13: when the CSW answer has no GetRecordByIdResponse or no MD_Metadata, or
\* the resolution of its record gives no download link, getResource rejects
\* with one error that tells which of these happened, after one log.error; no
\* write stream was opened, no download requested, no Resource returned.
C13_AbsenceRejects ==
  parsed # Null /\ parsed.k = "object" /\ AbsenceOf(context.resourceId) # "" =>
    /\ step = "rejected"
    /\ outcome = WrappedError(AbsenceOf(context.resourceId))
    /\ errorLog = <<GetResourceError(AbsenceOf(context.resourceId))>>
    /\ destPath = "" /\ disk = {} /\ stream = Null

\* C13 witness: a record whose only link is no download link was rejected
C13_Witness ==
  /\ parsed = CswParsed(CswRoot(Metadata(EsriFormat, TransferOptions(Library[9]))))
  /\ step = "rejected"
  /\ outcome.k = "error"

\* the extension that goes with a download: by its format, else that of the
\* path of its url
ExtensionOf(info) ==
  CASE info.format = "shapefile" -> ".zip"
    [] info.format = "geojson" -> ".geojson"
    [] info.format = "csv" -> ".csv"
    [] info.format = "json" -> ".json"
    [] OTHER -> ExtName(UrlBase(info.url))

\* C14: when getResource has returned a Resource, the response stream has
\* ended and the file at filePath holds all of it; filePath is the file named
\* by the resource id and the extension of the format, in tmpDir.
C14_ResolvedAfterWritten ==
  outcome # Null /\ outcome.k = "resource" =>
    /\ stream # Null /\ stream.left = 0
    /\ \E f \in disk : f.path = outcome.filePath /\ f.written = stream.total
    /\ outcome.filePath =
         Normalize(context.tmpDir \o "/" \o context.resourceId \o ExtensionOf(downloadInfo))

\* C14 witness: a GeoJSON download of several chunks was returned from a
\* relative tmpDir
C14_Witness ==
  /\ step = "resolved"
  /\ outcome.k = "resource"
  /\ outcome.filePath = "data/test/downloads/parcelles-2024.geojson"
  /\ stream.total = MaxChunks

\* the url, lower-cased protocol and name of an online resource made of text
LinkUrl(l) == l.CI_OnlineResource.URL.s

LinkProtocol(l) == ToLowerCase(l.CI_OnlineResource.protocol.CharacterString.s)

LinkName(l) == l.CI_OnlineResource.name.CharacterString.s

\* analyzeLink was called on an online resource made of text
AnalysedText == applied = "analyzeLink" /\ given.link \in TextLinks

\* the value of the outputformat parameter of a lower-cased url
OutputFormatValue(u) == ParamsGet(URLSearchParams(UrlQuery(u)), "outputformat")

\* the format an output-format value stands for
FormatOfOutputFormat(v) ==
  IF Includes(v, "json") THEN "geojson"
  ELSE IF Includes(v, "csv") THEN "csv"
  ELSE IF Includes(v, "zip") \/ Includes(v, "shape") THEN "shapefile"
  ELSE "wfs_service"

\* C15: a link whose url holds service=wfs and outputformat= gets score 50 and
\* the format its outputformat value stands for; json, csv, zip or shape
\* elsewhere in the url changes nothing.
\* Refuted: the format is looked for in the whole url.
C15_FormatFromOutputFormatValue ==
  AnalysedText =>
    LET u == ToLowerCase(LinkUrl(given.link))
    IN  Includes(u, "service=wfs") /\ Includes(u, "outputformat=") =>
          /\ returned.k = "candidate"
          /\ returned.score = 50
          /\ returned.format = FormatOfOutputFormat(OutputFormatValue(u))

\* whether rule k of the classification matches
RuleMatches(k, url, p, name) ==
  LET u == ToLowerCase(url)
      n == ToLowerCase(name)
  IN  CASE k = 1 -> Includes(u, "service=wfs") /\ Includes(u, "outputformat=")
        [] k = 2 -> Includes(u, "/api/data/") \/ Includes(u, "/api/records/")
        [] k = 3 -> Includes(u, "shape-zip") \/ EndsWith(u, ".zip") \/ Includes(n, "shapefile")
        [] k = 4 -> Includes(u, "geojson") \/ Includes(p, "geo+json") \/ Includes(n, "geojson")
        [] k = 5 -> Includes(u, "/csv") \/ Includes(u, ".csv") \/ Includes(p, "text/csv")
                      \/ name = "csv"
        [] k = 6 -> EndsWith(u, ".kml") \/ Includes(p, "kml")
        [] k = 7 -> /\ \/ Includes(u, "/json") \/ Includes(u, ".json")
                       \/ Includes(p, "application/json") \/ n = "json"
                    /\ ~Includes(u, "geojson")
        [] k = 8 -> Includes(p, "wfs") \/ Includes(u, "service=wfs")
        [] OTHER -> TRUE

\* the score of each rule and the formats it gives
RuleScore == <<50, 11, 8, 10, 6, 4, 5, 2, 1>>

RuleFormats ==
  << {"geojson", "csv", "shapefile", "wfs_service"}, {"shapefile"}, {"shapefile"},
     {"geojson"}, {"csv"}, {"kml"}, {"json"}, {"wfs_service"}, {"unknown"} >>

\* the rules that match the link analyzeLink was given
MatchingRules ==
  {k \in 1..9 : RuleMatches(k, LinkUrl(given.link), LinkProtocol(given.link),
                            LinkName(given.link))}

\* C16: analyzeLink gives a link that has a url the format and score of the
\* first rule that matches it, in the order WFS with output format, API export,
\* zipped shapefile, GeoJSON, CSV, KML, JSON, raw WFS; a link that matches none
\* is kept, as unknown with score 1.
C16_FirstMatchWins ==
  AnalysedText =>
    LET first == CHOOSE k \in MatchingRules : \A j \in MatchingRules : k <= j
    IN  /\ returned.k = "candidate"
        /\ returned.url = LinkUrl(given.link)
        /\ returned.score = RuleScore[first]
        /\ returned.format \in RuleFormats[first]

\* C16 witness: a link that matches the zipped shapefile rule and the GeoJSON
\* rule is a shapefile of score 8
C16_Witness ==
  /\ AnalysedText
  /\ {3, 4} \subseteq MatchingRules
  /\ 1 \notin MatchingRules /\ 2 \notin MatchingRules
  /\ returned.format = "shapefile" /\ returned.score = 8

\* the accepted candidate of call c was classified by the API export rule
ApiExportAccepted(c) ==
  /\ pc[c] = "done"
  /\ bestCandidate[c] # Null
  /\ bestCandidate[c].score = 11

\* C17: a call that accepted a candidate of the API export rule has run
\* detectFormatFromHeaders before it returns.
\* Refuted: an /api/records/ url is returned as a shapefile without the HEAD.
C17_ApiExportSniffed ==
  \A c \in Calls :
    ApiExportAccepted(c) =>
      \E k \in Probes(c) : requests[c][k].kind = "SNIFF"

\* the content types the table lists for the spreadsheet, GPX and KMZ families
ListedTypes ==
  { <<"application/vnd.openxmlformats-officedocument.spreadsheetml.sheet", "xlsx">>,
    <<"application/vnd.ms-excel", "xls">>,
    <<"application/vnd.oasis.opendocument.spreadsheet", "ods">>,
    <<"application/gpx+xml", "gpx">>,
    <<"application/vnd.google-earth.kmz", "kmz">> }

\* C18: on an answered HEAD, detectFormatFromHeaders gives xlsx, xls, ods, gpx
\* and kmz for their content types; the kml/xml entry takes none of them.
\* Refuted: the xlsx and gpx types hold "xml" and come out as kml.
C18_ListedTypesMapped ==
  applied = "detectFormatFromHeaders" /\ given.response.status = 200 =>
    \A e \in ListedTypes :
      given.response.contentType = e[1] => returned = e[2]

\* the formats the content-type table can give
SniffedFormats ==
  {"geojson", "shapefile", "csv", "kml", "tsv", "xlsx", "xls", "ods", "gpx", "kmz"}

\* C19: a call that accepted a candidate of format unknown ends after one
\* detectFormatFromHeaders on the candidate's url, without raising: with a
\* sniffed format it returns that url and format; after a failed HEAD, a
\* missing or an unknown content type it returns null.
C19_UnknownIsSniffed ==
  \A c \in Calls :
    /\ pc[c] = "raised" => bestCandidate[c] = Null \/ bestCandidate[c].format # "unknown"
    /\ pc[c] = "done" /\ bestCandidate[c] # Null /\ bestCandidate[c].format = "unknown" =>
         LET last == requests[c][Len(requests[c])]
         IN  /\ last.kind = "SNIFF"
             /\ last.url = bestCandidate[c].url
             /\ Cardinality({k \in Probes(c) : requests[c][k].kind = "SNIFF"}) = 1
             /\ last.ok =>
                  /\ result[c] # Null
                  /\ result[c].url = bestCandidate[c].url
                  /\ result[c].format \in SniffedFormats
                  /\ SniffWarning \notin reports[c]
             /\ ~last.ok =>
                  /\ result[c] = Null
                  /\ NoFormatWarning \in reports[c]
             /\ SniffWarning \in reports[c] => result[c] = Null

\* C19 witness: an unknown candidate was sniffed as a spreadsheet
C19_Witness ==
  /\ pc[1] = "done"
  /\ bestCandidate[1] # Null /\ bestCandidate[1].format = "unknown"
  /\ result[1] # Null /\ result[1].format = "ods"
  /\ result[1].url = bestCandidate[1].url

\* C20: the service test decides on a 4xx answer by its body and its content
\* type, as it does on a 2xx answer.
\* Refuted: every answer of status 400 or more is refused before its body is read.
C20_ClientErrorInspected ==
  applied = "isUrlValid" /\ given.response.status >= 400 /\ given.response.status < 500 =>
    returned =
      /\ ~(Includes(given.response.data, "ExceptionReport")
             \/ Includes(given.response.data, "ServiceException"))
      /\ ~(Includes(RequestedFormat(given.url), "json")
             /\ Includes(given.response.contentType, "xml"))

\* the answer carries one of the two exception markers in its body
HasExceptionMarker(r) ==
  Includes(r.data, "ExceptionReport") \/ Includes(r.data, "ServiceException")

\* C21: the service test returns false on an answer whose body holds
\* ExceptionReport or ServiceException, and on an answer of an xml content type
\* when the OUTPUTFORMAT value holds json; on a 200 answer of an xml type with
\* no marker it returns false for each of the five GeoJSON tokens and true for
\* each shapefile, CSV and KML token.
C21_ServiceTestRefusals ==
  applied = "isUrlValid" =>
    /\ HasExceptionMarker(given.response) => returned = FALSE
    /\ \A t \in 1..13 :
         given.url = NegotiatedTestUrls[t] =>
           /\ Includes(Tokens[t], "json") /\ Includes(given.response.contentType, "xml")
                => returned = FALSE
           /\ /\ given.response.status = 200
              /\ ~HasExceptionMarker(given.response)
              /\ Includes(given.response.contentType, "xml")
              => (returned = FALSE <=> TokenFormat(t) = "geojson")

\* C21 witness: the first GeoJSON token was answered 200 with GML and refused
C21_Witness ==
  /\ applied = "isUrlValid"
  /\ given.url = NegotiatedTestUrls[1]
  /\ given.response = Response(200, "<wfs:FeatureCollection/>", "text/xml; subtype=gml/3.2.1")
  /\ returned = FALSE

\* C22: the plain probe returns true exactly when its HEAD is answered with a
\* status from 200 to 399, and false, raising nothing, on a connection error,
\* a timeout and every 4xx or 5xx answer.
C22_PlainProbe ==
  applied = "isUrlValidHead" =>
    /\ returned \in BOOLEAN
    /\ returned = /\ UrlParses(given.url)
                  /\ given.response.status \in 200..399
    /\ given.response.status = 0 \/ given.response.status >= 400 => returned = FALSE

\* C22 witness: a HEAD answered 404 made the plain probe return false
C22_Witness ==
  /\ applied = "isUrlValidHead"
  /\ UrlParses(given.url)
  /\ given.response.status = 404
  /\ returned = FALSE

\* the five keys negotiateWfsFormat adds
CanonicalKeys == {"SERVICE", "VERSION", "REQUEST", "TYPENAMES", "OUTPUTFORMAT"}

\* the pairs of a url's query, decoded, in order
QueryOf(url) == URLSearchParams(UrlQuery(url))

\* the number of pairs of that key
CountKey(params, key) == Cardinality({k \in 1..Len(params) : params[k][1] = key})

\* the negotiated url holds no WFS key but the five canonical ones, each once
C23_CanonicalOnce ==
  applied = "negotiateWfsFormat" =>
    /\ \A k \in 1..Len(QueryOf(returned)) :
         ToLowerCase(QueryOf(returned)[k][1]) \in WfsKeys
           => QueryOf(returned)[k][1] \in CanonicalKeys
    /\ \A key \in CanonicalKeys : CountKey(QueryOf(returned), key) = 1
    /\ ParamsGet(QueryOf(returned), "SERVICE") = "WFS"
    /\ ParamsGet(QueryOf(returned), "VERSION") = "2.0.0"
    /\ ParamsGet(QueryOf(returned), "REQUEST") = "GetFeature"

\* the negotiated url keeps the other parameters of the original url
C23_OthersKept ==
  applied = "negotiateWfsFormat" =>
    SelectSeq(QueryOf(returned), LAMBDA q : q[1] \notin CanonicalKeys)
      = SelectSeq(QueryOf(given.originalUrl), LAMBDA q : ToLowerCase(q[1]) \notin WfsKeys)

\* C23: for any original WFS url, the negotiated url holds no query key equal
\* to service, request, version, typename, typenames, outputformat or srsname
\* in a letter case other than the canonical one, holds exactly one each of
\* SERVICE=WFS, VERSION=2.0.0, REQUEST=GetFeature, TYPENAMES and OUTPUTFORMAT,
\* and keeps every other original query parameter unchanged and in order.
\* Refuted: the original url is cut at its second question mark.
C23_NegotiatedQuery == C23_CanonicalOnce /\ C23_OthersKept

\* the name the catalogue declares for the WFS link of that url, as text
DeclaredName(url) ==
  LET j == CHOOSE n \in 1..Len(Library) :
             /\ Truthy(Library[n].CI_OnlineResource)
             /\ Library[n].CI_OnlineResource.URL = Str(url)
      name == Library[j].CI_OnlineResource.name
  IN  IF Truthy(name) THEN name.CharacterString.s ELSE ""

\* the GET at position k of call c belongs to a negotiation
NegotiationGet(c, k) == requests[c][k].kind = "GET"

\* C24: every request of a negotiation carries TYPENAMES equal to the declared
\* name of the link when the candidate comes from the raw WFS rule and that name
\* is not empty, and equal to the resource id otherwise; a candidate of the
\* WFS-with-outputformat rule always negotiates with the resource id.
C24_TypeNames ==
  \A c \in Calls : \A k \in Probes(c) :
    NegotiationGet(c, k) =>
      LET candidate == candidates[c][requests[c][k].cand]
      IN  ParamsGet(QueryOf(requests[c][k].url), "TYPENAMES")
            = IF candidate.score = 2 /\ DeclaredName(candidate.url) # ""
              THEN DeclaredName(candidate.url)
              ELSE resourceId[c]

\* C24 witness: in one call a named link with an outputformat was negotiated
\* with the resource id and a named raw WFS link with its name
C24_Witness ==
  \E k, n \in Probes(1) :
    /\ NegotiationGet(1, k) /\ NegotiationGet(1, n)
    /\ candidates[1][requests[1][k].cand].score = 50
    /\ DeclaredName(candidates[1][requests[1][k].cand].url) = "parcelles"
    /\ ParamsGet(QueryOf(requests[1][k].url), "TYPENAMES") = resourceId[1]
    /\ candidates[1][requests[1][n].cand].score = 2
    /\ ParamsGet(QueryOf(requests[1][n].url), "TYPENAMES") = "ms:parcelles"

\* the pairs of a query without the two parameters of the service test
WithoutLimits(params) == ParamsDelete(ParamsDelete(params, "COUNT"), "MAXFEATURES")

\* C25: every GET of the service test carries COUNT=1 and MAXFEATURES=1, and
\* the url a successful negotiation returns is the requested url without these
\* two parameters.
C25_LimitsOnlyInProbe ==
  \A c \in Calls : \A k \in Probes(c) :
    NegotiationGet(c, k) =>
      /\ ParamsGet(QueryOf(requests[c][k].url), "COUNT") = "1"
      /\ ParamsGet(QueryOf(requests[c][k].url), "MAXFEATURES") = "1"
      /\ requests[c][k].ok =>
           /\ result[c] # Null
           /\ UrlBase(result[c].url) = UrlBase(requests[c][k].url)
           /\ QueryOf(result[c].url) = WithoutLimits(QueryOf(requests[c][k].url))
           /\ ~ParamsHas(QueryOf(result[c].url), "COUNT")
           /\ ~ParamsHas(QueryOf(result[c].url), "MAXFEATURES")

\* C25 witness: a negotiation succeeded on a GET limited to one feature and
\* returned the url without the limits
C25_Witness ==
  \E k \in Probes(1) :
    /\ NegotiationGet(1, k) /\ requests[1][k].ok
    /\ pc[1] = "done"
    /\ ParamsGet(QueryOf(requests[1][k].url), "COUNT") = "1"
    /\ result[1].url = UrlWithParams(UrlBase(requests[1][k].url),
                                     WithoutLimits(QueryOf(requests[1][k].url)))

\* the WFS link that names a GeoJSON output format
GeoJsonWfsUrl == "https://example.org/wfs?service=wfs&outputformat=geojson"

\* the plain probe of the candidate at position i of call c failed before
\* position k
PlainProbeFailed(c, i, k) ==
  \E j \in 1..(k - 1) :
    /\ requests[c][j].kind = "HEAD"
    /\ requests[c][j].cand = i
    /\ ~requests[c][j].ok

\* C26: a link whose url holds service=wfs and outputformat=geojson is a
\* candidate of score 50 and format geojson; once its plain probe succeeds the
\* call returns the same url as geojson and no GET of the service test was sent
\* for it; and no GET is sent in a call unless the plain probe of a candidate
\* tagged wfs_service failed earlier in that call on that candidate.
C26_DirectWfsNotNegotiated ==
  \A c \in Calls :
    /\ \A i \in 1..Len(candidates[c]) :
         candidates[c][i].url = GeoJsonWfsUrl =>
           /\ candidates[c][i].score = 50
           /\ candidates[c][i].format = "geojson"
           /\ \A k \in Probes(c) : requests[c][k].cand = i => requests[c][k].kind = "HEAD"
           /\ \A k \in Probes(c) :
                requests[c][k].cand = i /\ requests[c][k].ok /\ pc[c] = "done" =>
                  result[c] = [url |-> GeoJsonWfsUrl, format |-> "geojson"]
    /\ \A k \in Probes(c) :
         NegotiationGet(c, k) =>
           /\ candidates[c][requests[c][k].cand].format = "wfs_service"
           /\ PlainProbeFailed(c, requests[c][k].cand, k)

\* C26 witness: the link was probed with one HEAD, accepted and returned
\* unchanged without any GET
C26_Witness ==
  /\ pc[1] = "done"
  /\ result[1] = [url |-> GeoJsonWfsUrl, format |-> "geojson"]
  /\ Len(requests[1]) = 1
  /\ requests[1][1].kind = "HEAD" /\ requests[1][1].ok

\* C27: for every raw link with no url, whatever the shapes of its protocol and
\* of its name, analyzeLink yields no candidate and raises nothing.
\* Refuted: the protocol is lower-cased before the url is looked at.
C27_NoUrlNoCandidate ==
  applied = "analyzeLink" /\ given.link \in NoUrlLinks => returned = Null

\* the url was validated by a probe of call c: a plain HEAD on it or a GET of
\* the service test on it, answered well
Validated(c, url) ==
  \E k \in Probes(c) :
    /\ requests[c][k].ok
    /\ \/ requests[c][k].kind = "HEAD" /\ requests[c][k].url = url
       \/ requests[c][k].kind = "GET" /\ requests[c][k].url = ServiceTestUrl(url)

\* C28: every url findBestDownloadUrl returns was itself validated by a
\* successful plain HEAD or service-test GET of that call; post-processing
\* returns no rewritten url that was not validated.
\* Refuted: the url of the API export is returned without its format parameter.
C28_ReturnedWasProbed ==
  \A c \in Calls :
    pc[c] = "done" /\ result[c] # Null => Validated(c, result[c].url)

\* the download was started and its promise rejected
DownloadRejected == step = "rejected" /\ destPath # ""

\* C29: whenever downloadFileWithProgress rejects, on a connection error, a
\* 4xx or 5xx answer, a stream error or a write error, no partial or empty
\* file is left at destPath.
\* Refuted: a 4xx answer leaves the empty file the write stream created.
C29_NoFileLeftOnReject ==
  DownloadRejected => \A f \in disk : f.path # destPath

\* C30: getText returns a string and raises nothing for every shape of input,
\* a wrapper whose CharacterString is a number or a nested object included.
\* Refuted: a truthy CharacterString or '#text' is returned as it is.
C30_GetTextReturnsString ==
  applied = "getText" => returned.k = "string"

====
